---- MODULE Spec2Model ----
(***************************************************************************)
(* Rocket feasibility engine: the zone validator (live Overpass provider)  *)
(* and the scoring pipeline of server/analysis-engine.ts, with the         *)
(* narrative client of server/openai-client.ts; the earlier static-list    *)
(* engine; the storage classes of server/storage.ts behind the routes of   *)
(* server/routes.ts; analyzeLocation calls in flight at the same time.     *)
(*                                                                         *)
(* Specifications                                                          *)
(*  - Spec: one request to the engine (validate-zone or analyze, live or   *)
(*    static variant);                                                     *)
(*  - SpecStorage: POST /api/analyze requests against either storage;      *)
(*  - SpecConcurrent: interleaved analyzeLocation calls;                   *)
(*  - SpecEstimators: the development and stability estimators;            *)
(*  - SpecClient: the Home page with its LocationPicker.                   *)
(*                                                                         *)
(* Conventions                                                             *)
(*  - text (messages, names, insight strings) is a sequence of tokens; the *)
(*    empty sequence is the empty / absent string; String.includes(m) is   *)
(*    the presence of the token m;                                         *)
(*  - an absent optional number is Undefined;                              *)
(*  - distances are metres, as returned by calculateDistance; the geometry *)
(*    (the distance from the location to each facility and each anchor)    *)
(*    is part of the input;                                                *)
(*  - latitude is in tenths of a degree;                                   *)
(*  - scores are in hundredths of a point (the code's scores are doubles   *)
(*    with at most two decimals).                                          *)
(***************************************************************************)
EXTENDS Integers, Sequences, FiniteSets, TLC

VARIABLES
    \* one request to the engine (validate-zone or analyze)
    pc, location, rocketConfig, overpass, zoneValidation,
    narrative, currentMonth, result,
    \* the requests sent to the narrative provider: how many, and the last one
    narrativeCalls, narrativeRequest,
    \* static-list engine: the entries of RESTRICTED_ZONES near the location
    nearbyZones,
    \* storage and routes
    storageKind, analyses, savedAnalyses, dbClock, nextId, requests, saveLog,
    \* concurrent analyzeLocation calls
    calls,
    \* the development and stability estimates of one analyzeLocation call
    estimates,
    \* the Home page: its state, the handleLocationSelect calls in flight, the
    \* mounted LocationPicker and its validate-zone mutations in flight, and
    \* the handler that ran last
    home, flows, picker, validations, lastEvent

engineVars == <<pc, location, rocketConfig, overpass, zoneValidation,
                narrative, currentMonth, result, narrativeCalls, narrativeRequest,
                nearbyZones>>

routeVars == <<storageKind, analyses, savedAnalyses, dbClock, nextId, requests, saveLog>>

clientVars == <<home, flows, picker, validations, lastEvent>>

vars == <<engineVars, routeVars, calls, estimates, clientVars>>

(* ------------------------------ bounds --------------------------------- *)
\* longest facility list the provider returns in the zone specification
MaxElements == 2
\* longest facility list the provider returns in the analysis specification
MaxAnalyzeElements == 4

(* ------------------------------ basics --------------------------------- *)
Undefined == -1
NaN == -2

Falsy(n) == n = Undefined \/ n = 0 \/ n = NaN

\* a < b on numbers, false when a is NaN
Lt(a, b) == a # NaN /\ a < b
Gt(a, b) == a # NaN /\ a > b

Includes(message, marker) == \E i \in 1..Len(message) : message[i] = marker

Abs(n) == IF n < 0 THEN 0 - n ELSE n
Min(a, b) == IF a < b THEN a ELSE b
Max(a, b) == IF a > b THEN a ELSE b

\* Math.round(num / den) for num >= 0, den > 0: floor(x + 0.5)
MathRound(num, den) == (2 * num + den) \div (2 * den)

(* ----------------------------- OSM payload ----------------------------- *)
Tags(aeroway, amenity, military, landuse, place, population, name) ==
    [aeroway |-> aeroway, amenity |-> amenity, military |-> military,
     landuse |-> landuse, place |-> place, population |-> population,
     name |-> name]

NoTags == Tags("", "", "", "", "", <<>>, <<>>)

\* pos: which coordinates the record carries; dist: the great-circle distance
\* from the analysed location to those coordinates
OSMElement(type, id, pos, dist, tags) ==
    [isNull |-> FALSE, type |-> type, id |-> id, pos |-> pos, dist |-> dist,
     tags |-> tags]

NullElement ==
    [isNull |-> TRUE, type |-> "", id |-> 0, pos |-> "none", dist |-> Undefined,
     tags |-> NoTags]

\* the parsed reply body: the JSON value null, or an object whose `elements`
\* is absent, a truthy non-list, or a list
NullData == [shape |-> "null", elements |-> "absent", items |-> <<>>]
NoElementsData == [shape |-> "object", elements |-> "absent", items |-> <<>>]
NonListData == [shape |-> "object", elements |-> "nonlist", items |-> <<>>]
ListData(items) == [shape |-> "object", elements |-> "list", items |-> items]

\* what the provider does with one request
OverpassOutcome(net, ok, json, data) ==
    [net |-> net, ok |-> ok, json |-> json, data |-> data]

queryOverpassAPI(outcome) ==
    IF outcome.net = "reject" THEN NullData
    ELSE IF ~outcome.ok THEN NullData
    ELSE IF outcome.json = "invalid" THEN NullData
    ELSE outcome.data

calculateDistance(element) == element.dist

(* ----------------------------- validateZone ---------------------------- *)
Warning(type, message, distance, src) ==
    [type |-> type, message |-> message, distance |-> distance, src |-> src]

UnavailableWarning ==
    Warning("other", <<"Unable to verify restricted zones", "due to data service unavailability">>,
            Undefined, 0)

HighLatitudeWarning ==
    Warning("other", <<"High latitude location may have challenging weather conditions">>,
            Undefined, 0)

HasCoordinates(element) == element.pos # "none"

ElementId(element) == <<element.type, element.id>>

FacilityName(tags, default) == IF tags.name = <<>> THEN <<default>> ELSE tags.name

\* variant: the airport critical radius taken inclusively (<= instead of <)
ClassifyFacility_InclusiveRadius(element, src) ==
    LET distance == calculateDistance(element)
        name == FacilityName(element.tags, "Unnamed facility")
        tags == element.tags
    IN  IF tags.aeroway = "aerodrome" \/ tags.aeroway = "airport" THEN
            IF distance # NaN /\ distance <= 8000 THEN
                << Warning("airport", <<"CRITICAL", "Inside or very close to">> \o name \o <<"airport">>, distance, src) >>
            ELSE IF Lt(distance, 15000) THEN
                << Warning("airport", <<"Near">> \o name \o <<"airport">>, distance, src) >>
            ELSE << >>
        ELSE IF tags.amenity = "school" \/ tags.amenity = "university" \/ tags.amenity = "college" THEN
            IF Lt(distance, 500) THEN
                << Warning("school", <<"CRITICAL", "Inside or adjacent to">> \o name, distance, src) >>
            ELSE IF Lt(distance, 2000) THEN
                << Warning("school", <<"Near">> \o name, distance, src) >>
            ELSE << >>
        ELSE IF tags.military # "" \/ tags.landuse = "military" THEN
            IF Lt(distance, 5000) THEN
                << Warning("military", <<"CRITICAL", "Inside or near">> \o name \o <<"military zone">>, distance, src) >>
            ELSE IF Lt(distance, 10000) THEN
                << Warning("military", <<"Near">> \o name \o <<"military facility">>, distance, src) >>
            ELSE << >>
        ELSE IF tags.amenity = "hospital" THEN
            IF Lt(distance, 1500) THEN
                << Warning("other", <<"Near">> \o name \o <<"hospital">>, distance, src) >>
            ELSE << >>
        ELSE << >>

\* variant: the military critical radius taken inclusively (<= instead of <)
ClassifyFacility_MilitaryInclusive(element, src) ==
    LET distance == calculateDistance(element)
        name == FacilityName(element.tags, "Unnamed facility")
        tags == element.tags
    IN  IF tags.aeroway = "aerodrome" \/ tags.aeroway = "airport" THEN
            IF Lt(distance, 8000) THEN
                << Warning("airport", <<"CRITICAL", "Inside or very close to">> \o name \o <<"airport">>, distance, src) >>
            ELSE IF Lt(distance, 15000) THEN
                << Warning("airport", <<"Near">> \o name \o <<"airport">>, distance, src) >>
            ELSE << >>
        ELSE IF tags.amenity = "school" \/ tags.amenity = "university" \/ tags.amenity = "college" THEN
            IF Lt(distance, 500) THEN
                << Warning("school", <<"CRITICAL", "Inside or adjacent to">> \o name, distance, src) >>
            ELSE IF Lt(distance, 2000) THEN
                << Warning("school", <<"Near">> \o name, distance, src) >>
            ELSE << >>
        ELSE IF tags.military # "" \/ tags.landuse = "military" THEN
            IF distance # NaN /\ distance <= 5000 THEN
                << Warning("military", <<"CRITICAL", "Inside or near">> \o name \o <<"military zone">>, distance, src) >>
            ELSE IF Lt(distance, 10000) THEN
                << Warning("military", <<"Near">> \o name \o <<"military facility">>, distance, src) >>
            ELSE << >>
        ELSE IF tags.amenity = "hospital" THEN
            IF Lt(distance, 1500) THEN
                << Warning("other", <<"Near">> \o name \o <<"hospital">>, distance, src) >>
            ELSE << >>
        ELSE << >>

\* the warnings one not-yet-processed facility contributes (lines 147-208)
ClassifyFacility(element, src) ==
    LET distance == calculateDistance(element)
        name == FacilityName(element.tags, "Unnamed facility")
        tags == element.tags
    IN  IF tags.aeroway = "aerodrome" \/ tags.aeroway = "airport" THEN
            IF Lt(distance, 8000) THEN
                << Warning("airport", <<"CRITICAL", "Inside or very close to">> \o name \o <<"airport">>, distance, src) >>
            ELSE IF Lt(distance, 15000) THEN
                << Warning("airport", <<"Near">> \o name \o <<"airport">>, distance, src) >>
            ELSE << >>
        ELSE IF tags.amenity = "school" \/ tags.amenity = "university" \/ tags.amenity = "college" THEN
            IF Lt(distance, 500) THEN
                << Warning("school", <<"CRITICAL", "Inside or adjacent to">> \o name, distance, src) >>
            ELSE IF Lt(distance, 2000) THEN
                << Warning("school", <<"Near">> \o name, distance, src) >>
            ELSE << >>
        ELSE IF tags.military # "" \/ tags.landuse = "military" THEN
            IF Lt(distance, 5000) THEN
                << Warning("military", <<"CRITICAL", "Inside or near">> \o name \o <<"military zone">>, distance, src) >>
            ELSE IF Lt(distance, 10000) THEN
                << Warning("military", <<"Near">> \o name \o <<"military facility">>, distance, src) >>
            ELSE << >>
        ELSE IF tags.amenity = "hospital" THEN
            IF Lt(distance, 1500) THEN
                << Warning("other", <<"Near">> \o name \o <<"hospital">>, distance, src) >>
            ELSE << >>
        ELSE << >>

\* the loop of lines 128-209 from index i on
RECURSIVE FacilityLoop(_, _, _, _)
FacilityLoop(elements, i, processed, warnings) ==
    IF i > Len(elements) THEN warnings
    ELSE LET element == elements[i]
         IN  IF ~HasCoordinates(element) THEN
                 FacilityLoop(elements, i + 1, processed, warnings)
             ELSE IF ElementId(element) \in processed THEN
                 FacilityLoop(elements, i + 1, processed, warnings)
             ELSE FacilityLoop(elements, i + 1, processed \cup {ElementId(element)},
                               warnings \o ClassifyFacility(element, i))

DigitValue(ch) ==
    CASE ch = "0" -> 0 [] ch = "1" -> 1 [] ch = "2" -> 2 [] ch = "3" -> 3
      [] ch = "4" -> 4 [] ch = "5" -> 5 [] ch = "6" -> 6 [] ch = "7" -> 7
      [] ch = "8" -> 8 [] ch = "9" -> 9 [] OTHER -> Undefined

\* parseInt on a string of characters: the leading decimal digits, NaN if none
RECURSIVE ParseDigits(_, _, _)
ParseDigits(chars, i, acc) ==
    IF i > Len(chars) \/ DigitValue(chars[i]) = Undefined THEN
        (IF i = 1 THEN NaN ELSE acc)
    ELSE ParseDigits(chars, i + 1, 10 * acc + DigitValue(chars[i]))

parseInt(chars) == ParseDigits(chars, 1, 0)

IsUrbanArea(element) ==
    element.tags.place = "city" \/ element.tags.place = "town" \/ element.tags.place = "suburb"

\* variant: the population thresholds taken inclusively (>= instead of >)
ClassifyUrban_PopulationInclusive(urban, src) ==
    IF ~HasCoordinates(urban) THEN << >>
    ELSE
    LET distance == calculateDistance(urban)
        population == IF urban.tags.population # <<>> THEN parseInt(urban.tags.population) ELSE 0
        name == FacilityName(urban.tags, "Urban area")
    IN  IF population # NaN /\ population >= 100000 /\ Lt(distance, 10000) THEN
            << Warning("urban_dense", <<"Inside or near dense urban area of">> \o name, distance, src) >>
        ELSE IF population # NaN /\ population >= 50000 /\ Lt(distance, 5000) THEN
            << Warning("urban_dense", <<"Within populated area of">> \o name, distance, src) >>
        ELSE IF Lt(distance, 2000) /\ urban.tags.place = "suburb" THEN
            << Warning("urban_dense", <<"Within residential suburb of">> \o name, distance, src) >>
        ELSE << >>

\* the warnings one populated place contributes (lines 226-259)
ClassifyUrban(urban, src) ==
    IF ~HasCoordinates(urban) THEN << >>
    ELSE
    LET distance == calculateDistance(urban)
        population == IF urban.tags.population # <<>> THEN parseInt(urban.tags.population) ELSE 0
        name == FacilityName(urban.tags, "Urban area")
    IN  IF Gt(population, 100000) /\ Lt(distance, 10000) THEN
            << Warning("urban_dense", <<"Inside or near dense urban area of">> \o name, distance, src) >>
        ELSE IF Gt(population, 50000) /\ Lt(distance, 5000) THEN
            << Warning("urban_dense", <<"Within populated area of">> \o name, distance, src) >>
        ELSE IF Lt(distance, 2000) /\ urban.tags.place = "suburb" THEN
            << Warning("urban_dense", <<"Within residential suburb of">> \o name, distance, src) >>
        ELSE << >>

\* the filter and loop of lines 221-260 from index i on
RECURSIVE UrbanLoop(_, _, _)
UrbanLoop(elements, i, warnings) ==
    IF i > Len(elements) THEN warnings
    ELSE IF IsUrbanArea(elements[i]) THEN
        UrbanLoop(elements, i + 1, warnings \o ClassifyUrban(elements[i], i))
    ELSE UrbanLoop(elements, i + 1, warnings)

IsCriticalWarning(w) ==
    IF Falsy(w.distance) THEN Includes(w.message, "CRITICAL")
    ELSE IF w.type = "airport" /\ w.distance < 8000 THEN TRUE
    ELSE IF w.type = "military" /\ w.distance < 5000 THEN TRUE
    ELSE IF w.type = "school" /\ w.distance < 500 THEN TRUE
    ELSE FALSE

hasCriticalViolation(warnings) ==
    \E i \in 1..Len(warnings) : IsCriticalWarning(warnings[i])

hasDataServiceWarning(warnings) ==
    \E i \in 1..Len(warnings) : Includes(warnings[i].message, "Unable to verify restricted zones")

HasRestrictedTypeWarning(warnings) ==
    \E i \in 1..Len(warnings) : warnings[i].type \in {"airport", "military", "school"}

\* variant: the provider-unavailable warning does not invalidate
isValidOf_IgnoresServiceWarning(warnings) ==
    ~hasCriticalViolation(warnings) /\ ~HasRestrictedTypeWarning(warnings)

\* variant: only a critical violation or an unavailable provider invalidates
isValidOf_CriticalOnly(warnings) ==
    ~hasCriticalViolation(warnings) /\ ~hasDataServiceWarning(warnings)

isValidOf(warnings) ==
    ~hasCriticalViolation(warnings) /\ ~hasDataServiceWarning(warnings)
        /\ ~HasRestrictedTypeWarning(warnings)

severityOf(warnings) ==
    IF hasCriticalViolation(warnings) THEN "danger"
    ELSE IF Len(warnings) > 0 \/ hasDataServiceWarning(warnings) THEN "caution"
    ELSE "safe"

\* `osmData && osmData.elements`
HasElements(osmData) == osmData.shape # "null" /\ osmData.elements # "absent"

\* the for-of over a non-iterable and the property read on a null element
\* raise a TypeError that validateZone does not catch
validateZoneThrows(osmData) ==
    HasElements(osmData)
        /\ (osmData.elements = "nonlist"
            \/ \E i \in 1..Len(osmData.items) : osmData.items[i].isNull)

\* variant: a reply without facilities also takes the provider-unavailable path
ZoneWarnings_EmptyIsUnavailable(latitude, osmData) ==
    LET w1 == IF osmData.shape = "null" \/ ~HasElements(osmData) \/ osmData.items = <<>>
              THEN << UnavailableWarning >> ELSE << >>
        w2 == IF HasElements(osmData) THEN FacilityLoop(osmData.items, 1, {}, w1) ELSE w1
        w3 == IF Abs(latitude) > 600 THEN w2 \o << HighLatitudeWarning >> ELSE w2
    IN  IF HasElements(osmData) THEN UrbanLoop(osmData.items, 1, w3) ELSE w3

\* variant: the urban-density loop runs before the high-latitude check
ZoneWarnings_UrbanBeforeLatitude(latitude, osmData) ==
    LET w1 == IF osmData.shape = "null" THEN << UnavailableWarning >> ELSE << >>
        w2 == IF HasElements(osmData) THEN FacilityLoop(osmData.items, 1, {}, w1) ELSE w1
        w3 == IF HasElements(osmData) THEN UrbanLoop(osmData.items, 1, w2) ELSE w2
    IN  IF Abs(latitude) > 600 THEN w3 \o << HighLatitudeWarning >> ELSE w3

\* variant: the high-latitude check taken inclusively (>= 60 instead of > 60)
ZoneWarnings_LatitudeInclusive(latitude, osmData) ==
    LET w1 == IF osmData.shape = "null" THEN << UnavailableWarning >> ELSE << >>
        w2 == IF HasElements(osmData) THEN FacilityLoop(osmData.items, 1, {}, w1) ELSE w1
        w3 == IF Abs(latitude) >= 600 THEN w2 \o << HighLatitudeWarning >> ELSE w2
    IN  IF HasElements(osmData) THEN UrbanLoop(osmData.items, 1, w3) ELSE w3

ZoneWarnings(latitude, osmData) ==
    LET w1 == IF osmData.shape = "null" THEN << UnavailableWarning >> ELSE << >>
        w2 == IF HasElements(osmData) THEN FacilityLoop(osmData.items, 1, {}, w1) ELSE w1
        w3 == IF Abs(latitude) > 600 THEN w2 \o << HighLatitudeWarning >> ELSE w2
    IN  IF HasElements(osmData) THEN UrbanLoop(osmData.items, 1, w3) ELSE w3

validateZone(loc, osmData) ==
    LET warnings == ZoneWarnings(loc.latitude, osmData)
    IN  [isValid |-> isValidOf(warnings), warnings |-> warnings,
         severity |-> severityOf(warnings)]

(* --------------------------- heuristic estimators ---------------------- *)
Infinity == -3

\* scores of the `developed` anchors, in list order (New York, London, Tokyo,
\* Paris, Sydney, Singapore)
DevelopedScores == <<95, 95, 95, 90, 90, 92>>

\* scores of the `stable` anchors, in list order
StableScores == <<95, 95, 90, 88, 90, 92, 85>>

\* variant: an anchor at the same distance replaces the one found (<= instead of <)
RECURSIVE NearestAnchor_LastWins(_, _, _, _, _)
NearestAnchor_LastWins(scores, dists, i, minDistance, closestScore) ==
    IF i > Len(scores) THEN [minDistance |-> minDistance, closestScore |-> closestScore]
    ELSE IF minDistance = Infinity \/ dists[i] <= minDistance THEN
        NearestAnchor_LastWins(scores, dists, i + 1, dists[i], scores[i])
    ELSE NearestAnchor_LastWins(scores, dists, i + 1, minDistance, closestScore)

\* the nearest-anchor loop: dists[i] is calculateDistance(location, anchor i)
RECURSIVE NearestAnchor(_, _, _, _, _)
NearestAnchor(scores, dists, i, minDistance, closestScore) ==
    IF i > Len(scores) THEN [minDistance |-> minDistance, closestScore |-> closestScore]
    ELSE IF minDistance = Infinity \/ dists[i] < minDistance THEN
        NearestAnchor(scores, dists, i + 1, dists[i], scores[i])
    ELSE NearestAnchor(scores, dists, i + 1, minDistance, closestScore)

\* Math.round(closestScore * f + base * (1 - f)), f = max(0, 1 - minDistance / decay)
Blend(closestScore, minDistance, base, decay) ==
    IF minDistance >= decay THEN base
    ELSE MathRound(closestScore * (decay - minDistance) + base * minDistance, decay)

assessDevelopmentLevel(loc) ==
    LET n == NearestAnchor(DevelopedScores, loc.devDist, 1, Infinity, 60)
    IN  Blend(n.closestScore, n.minDistance, 60, 5000000)

assessPoliticalStability(loc) ==
    LET n == NearestAnchor(StableScores, loc.stabDist, 1, Infinity, 65)
    IN  Blend(n.closestScore, n.minDistance, 65, 8000000)

\* weatherScore of assessClimate
assessClimate(loc) ==
    LET lat == Abs(loc.latitude)
    IN  IF lat < 235 THEN 70
        ELSE IF lat < 400 THEN 85
        ELSE IF lat < 600 THEN 65
        ELSE 45

(* --------------------------- narrative client -------------------------- *)
Insights(resourcesInsight, legalInsight, geographicalInsight, geopoliticalInsight, recommendation) ==
    [resourcesInsight |-> resourcesInsight, legalInsight |-> legalInsight,
     geographicalInsight |-> geographicalInsight,
     geopoliticalInsight |-> geopoliticalInsight, recommendation |-> recommendation]

NoInsights == Insights(<<>>, <<>>, <<>>, <<>>, <<>>)

\* call: the completion request resolves or rejects; content: the message
\* content is null, not JSON, the JSON value null, or a JSON object `fields`
NarrativeOutcome(call, content, fields) ==
    [call |-> call, content |-> content, fields |-> fields]

\* variant: a missing text is passed on instead of replaced by the default
OrElse_KeepsEmpty(text, default) == text

OrElse(text, default) == IF text = <<>> THEN default ELSE text

NarrativeFallback(locationData) ==
    LET locationDesc == OrElse(locationData.displayName, <<"lat, lon">>)
        hasWarnings == Len(locationData.zoneWarnings) > 0
    IN  Insights(
          <<"Standard assessment for">> \o locationDesc
              \o (IF locationData.country # <<>> THEN <<"In">> \o locationData.country ELSE <<>>)
              \o <<"resource availability depends on local infrastructure">>,
          IF hasWarnings THEN <<"Zone restrictions detected at this location. Regulatory approval required.">>
          ELSE <<"Standard regulatory requirements apply.">> \o locationData.rocketType,
          <<"Location at lat, lon. Geographical assessment based on regional climate patterns">>,
          IF locationData.country # <<>> THEN <<"Regional analysis for">> \o locationData.country
          ELSE <<"Regional stability and regulatory framework should be evaluated">>,
          IF hasWarnings THEN <<"This location has zone restrictions that significantly impact launch feasibility.">>
          ELSE <<"Standard feasibility applies to this location.">> \o locationData.rocketType)

analyzeLocationWithAI(locationData, outcome) ==
    IF outcome.call = "reject" \/ outcome.content = "invalid" \/ outcome.content = "jsonnull" THEN
        NarrativeFallback(locationData)
    ELSE
        LET r == IF outcome.content = "null" THEN NoInsights ELSE outcome.fields
        IN  Insights(OrElse(r.resourcesInsight, <<"Analysis unavailable">>),
                     OrElse(r.legalInsight, <<"Analysis unavailable">>),
                     OrElse(r.geographicalInsight, <<"Analysis unavailable">>),
                     OrElse(r.geopoliticalInsight, <<"Analysis unavailable">>),
                     OrElse(r.recommendation, <<"Unable to generate recommendation">>))

(* ------------------------------- scoring ------------------------------- *)
\* variant: the tier boundaries taken exclusively (> instead of >=)
createFeasibilityScore_StrictTier(score, details) ==
    [score |-> score,
     status |-> IF score > 7000 THEN "feasible"
                ELSE IF score > 4000 THEN "caution" ELSE "not_recommended",
     details |-> details]

createFeasibilityScore(score, details) ==
    [score |-> score,
     status |-> IF score >= 7000 THEN "feasible"
                ELSE IF score >= 4000 THEN "caution" ELSE "not_recommended",
     details |-> details]

\* Math.round of the mean of `n` scores whose sum is `sum`, as a score
RoundedMean(sum, n) == 100 * MathRound(sum, 100 * n)

RocketConfig(category, modelType, safetyLevel) ==
    [category |-> category, modelType |-> modelType, safetyLevel |-> safetyLevel]

rocketTypeLabel(cfg) ==
    IF cfg.category = "model" THEN
        <<"Model Rocket", IF cfg.modelType = "" THEN "hobby" ELSE cfg.modelType,
          IF cfg.safetyLevel = "" THEN "beginner" ELSE cfg.safetyLevel>>
    ELSE <<"Industrial Rocket">>

WarningMessages(warnings) == [i \in 1..Len(warnings) |-> warnings[i].message]

\* variant: the narrative request is built without the zone warnings
LocationData_WithoutWarnings(loc, cfg, zv) ==
    [displayName |-> loc.displayName, country |-> loc.country,
     rocketType |-> rocketTypeLabel(cfg), zoneWarnings |-> << >>]

LocationData(loc, cfg, zv) ==
    [displayName |-> loc.displayName, country |-> loc.country,
     rocketType |-> rocketTypeLabel(cfg), zoneWarnings |-> WarningMessages(zv.warnings)]

resourcesAnalysis(cfg, developmentLevel, ai) ==
    LET isModelRocket == cfg.category = "model"
        materials == createFeasibilityScore(
            Min(9500, 6000 + 30 * developmentLevel + (IF isModelRocket THEN 2000 ELSE 0)),
            ai.resourcesInsight)
        expertise == createFeasibilityScore(
            Min(9500, 5000 + 40 * developmentLevel + (IF cfg.safetyLevel = "advanced" THEN 1500 ELSE 0)),
            ai.resourcesInsight)
        facilities == createFeasibilityScore(
            Min(9500, 4000 + 50 * developmentLevel + (IF isModelRocket THEN 2500 ELSE 0)),
            ai.resourcesInsight)
    IN  [materials |-> materials, expertise |-> expertise, facilities |-> facilities,
         overall |-> createFeasibilityScore(
             RoundedMean(materials.score + expertise.score + facilities.score, 3),
             ai.resourcesInsight)]

\* variant: the restrictions score of caution and of safe exchanged
legalAnalysis_CautionAboveSafe(cfg, zv, politicalStability, ai) ==
    LET isModelRocket == cfg.category = "model"
        permits == createFeasibilityScore(
            Max(3000, 7000 - Len(zv.warnings) * 1500 + (IF isModelRocket THEN 1000 ELSE 0 - 2000)),
            ai.legalInsight)
        regulations == createFeasibilityScore(
            Max(2500, 6500 + 20 * politicalStability - (IF isModelRocket THEN 0 ELSE 1500)),
            ai.legalInsight)
        restrictions == createFeasibilityScore(
            IF zv.severity = "safe" THEN 5500 ELSE IF zv.severity = "caution" THEN 8500 ELSE 2000,
            ai.legalInsight)
    IN  [permits |-> permits, regulations |-> regulations, restrictions |-> restrictions,
         overall |-> createFeasibilityScore(
             RoundedMean(permits.score + regulations.score + restrictions.score, 3),
             ai.legalInsight)]

legalAnalysis(cfg, zv, politicalStability, ai) ==
    LET isModelRocket == cfg.category = "model"
        permits == createFeasibilityScore(
            Max(3000, 7000 - Len(zv.warnings) * 1500 + (IF isModelRocket THEN 1000 ELSE 0 - 2000)),
            ai.legalInsight)
        regulations == createFeasibilityScore(
            Max(2500, 6500 + 20 * politicalStability - (IF isModelRocket THEN 0 ELSE 1500)),
            ai.legalInsight)
        restrictions == createFeasibilityScore(
            IF zv.severity = "safe" THEN 8500 ELSE IF zv.severity = "caution" THEN 5500 ELSE 2000,
            ai.legalInsight)
    IN  [permits |-> permits, regulations |-> regulations, restrictions |-> restrictions,
         overall |-> createFeasibilityScore(
             RoundedMean(permits.score + regulations.score + restrictions.score, 3),
             ai.legalInsight)]

geographicalAnalysis(loc, developmentLevel, ai) ==
    LET terrain == createFeasibilityScore(
            Min(9000, 7000 + (IF Abs(loc.latitude) < 300 THEN 1000 ELSE 0 - 500)),
            ai.geographicalInsight)
        weather == createFeasibilityScore(100 * assessClimate(loc), ai.geographicalInsight)
        accessibility == createFeasibilityScore(
            Min(9500, 5500 + 35 * developmentLevel), ai.geographicalInsight)
    IN  [terrain |-> terrain, weather |-> weather, accessibility |-> accessibility,
         overall |-> createFeasibilityScore(
             RoundedMean(terrain.score + weather.score + accessibility.score, 3),
             ai.geographicalInsight)]

geopoliticalAnalysis(politicalStability, ai) ==
    LET stability == createFeasibilityScore(100 * politicalStability, ai.geopoliticalInsight)
        cooperation == createFeasibilityScore(
            Min(9000, 5000 + 40 * politicalStability), ai.geopoliticalInsight)
        risks == createFeasibilityScore(
            Min(9500, 8500 - (100 - politicalStability) * 30), ai.geopoliticalInsight)
    IN  [stability |-> stability, cooperation |-> cooperation, risks |-> risks,
         overall |-> createFeasibilityScore(
             RoundedMean(stability.score + cooperation.score + risks.score, 3),
             ai.geopoliticalInsight)]

\* variant: the equator counted with the southern hemisphere (> 0 instead of >= 0)
isSummerOf_StrictNorth(loc, month) ==
    LET isSummerNorthern == month >= 5 /\ month <= 8
    IN  IF loc.latitude > 0 THEN isSummerNorthern ELSE ~isSummerNorthern

isSummerOf(loc, month) ==
    LET isSummerNorthern == month >= 5 /\ month <= 8
    IN  IF loc.latitude >= 0 THEN isSummerNorthern ELSE ~isSummerNorthern

\* variant: the timing overall divides by three like the other categories
timingAnalysis_MeanOfThree(loc, month) ==
    LET isSummer == isSummerOf(loc, month)
        seasonality == createFeasibilityScore(
            IF isSummer THEN 8000 ELSE 6000,
            IF isSummer THEN <<"Current season generally favorable for launch activities">>
            ELSE <<"Off-season may present weather challenges.">>)
        currentConditions == createFeasibilityScore(
            7500, <<"Real-time conditions should be verified closer to launch date.">>)
    IN  [seasonality |-> seasonality, currentConditions |-> currentConditions,
         optimalWindow |-> IF loc.latitude >= 0 THEN <<"June through September">>
                           ELSE <<"December through March">>,
         overall |-> createFeasibilityScore(
             RoundedMean(seasonality.score + currentConditions.score, 3),
             <<"Timing assessment based on seasonal patterns and current conditions.">>)]

timingAnalysis(loc, month) ==
    LET isSummer == isSummerOf(loc, month)
        seasonality == createFeasibilityScore(
            IF isSummer THEN 8000 ELSE 6000,
            IF isSummer THEN <<"Current season generally favorable for launch activities">>
            ELSE <<"Off-season may present weather challenges.">>)
        currentConditions == createFeasibilityScore(
            7500, <<"Real-time conditions should be verified closer to launch date.">>)
    IN  [seasonality |-> seasonality, currentConditions |-> currentConditions,
         optimalWindow |-> IF loc.latitude >= 0 THEN <<"June through September">>
                           ELSE <<"December through March">>,
         overall |-> createFeasibilityScore(
             RoundedMean(seasonality.score + currentConditions.score, 2),
             <<"Timing assessment based on seasonal patterns and current conditions.">>)]

practicalityAnalysis(cfg, zv, developmentLevel, politicalStability) ==
    LET isModelRocket == cfg.category = "model"
        cost == createFeasibilityScore(
            IF isModelRocket THEN 8500 ELSE Max(3000, 4000 + 30 * developmentLevel),
            IF isModelRocket THEN <<"Model rockets are highly cost-effective">>
            ELSE <<"Industrial rockets require significant capital investment">>)
        timeline == createFeasibilityScore(
            IF isModelRocket THEN 9000 ELSE 5000 + 30 * politicalStability,
            IF isModelRocket THEN <<"Model rocket projects can be completed in weeks to months.">>
            ELSE <<"Industrial rocket development typically requires 2-5 years">>)
        successProbability == createFeasibilityScore(
            Max(3500,
                6000
                + (IF cfg.safetyLevel = "advanced" THEN 1500
                   ELSE IF cfg.safetyLevel = "intermediate" THEN 500 ELSE 0 - 500)
                + (IF zv.severity = "safe" THEN 1000 ELSE 0 - 1000)
                + (IF isModelRocket THEN 1000 ELSE 0 - 1500)),
            <<"Success probability based on experience level, location suitability, and project scope.">>)
    IN  [cost |-> cost, timeline |-> timeline, successProbability |-> successProbability,
         overall |-> createFeasibilityScore(
             RoundedMean(cost.score + timeline.score + successProbability.score, 3),
             <<"Practical feasibility considering cost, timeline, and success factors.">>)]

\* variant: the overall score is that of the weakest category, not the mean
AnalysisResult_WeakestCategory(loc, cfg, zv, ai, month) ==
    LET developmentLevel == assessDevelopmentLevel(loc)
        politicalStability == assessPoliticalStability(loc)
        resources == resourcesAnalysis(cfg, developmentLevel, ai)
        legal == legalAnalysis(cfg, zv, politicalStability, ai)
        geographical == geographicalAnalysis(loc, developmentLevel, ai)
        geopolitical == geopoliticalAnalysis(politicalStability, ai)
        timing == timingAnalysis(loc, month)
        practicality == practicalityAnalysis(cfg, zv, developmentLevel, politicalStability)
    IN  [location |-> loc, rocketConfig |-> cfg, zoneValidation |-> zv,
         resources |-> resources, legal |-> legal, geographical |-> geographical,
         geopolitical |-> geopolitical, timing |-> timing, practicality |-> practicality,
         overallScore |->
             Min(Min(resources.overall.score, legal.overall.score),
                 Min(Min(geographical.overall.score, geopolitical.overall.score),
                     Min(timing.overall.score, practicality.overall.score))),
         recommendation |-> OrElse(ai.recommendation,
             <<"Unable to generate specific recommendation.">>)]

\* getOverallStatus of the results page
getOverallStatus(overallScore) ==
    IF overallScore >= 7000 THEN "feasible"
    ELSE IF overallScore >= 4000 THEN "caution"
    ELSE "not_recommended"

\* the part of analyzeLocation after the narrative call (lines 324-485)
AnalysisResult(loc, cfg, zv, ai, month) ==
    LET developmentLevel == assessDevelopmentLevel(loc)
        politicalStability == assessPoliticalStability(loc)
        resources == resourcesAnalysis(cfg, developmentLevel, ai)
        legal == legalAnalysis(cfg, zv, politicalStability, ai)
        geographical == geographicalAnalysis(loc, developmentLevel, ai)
        geopolitical == geopoliticalAnalysis(politicalStability, ai)
        timing == timingAnalysis(loc, month)
        practicality == practicalityAnalysis(cfg, zv, developmentLevel, politicalStability)
    IN  [location |-> loc, rocketConfig |-> cfg, zoneValidation |-> zv,
         resources |-> resources, legal |-> legal, geographical |-> geographical,
         geopolitical |-> geopolitical, timing |-> timing, practicality |-> practicality,
         overallScore |-> RoundedMean(
             resources.overall.score + legal.overall.score + geographical.overall.score
             + geopolitical.overall.score + timing.overall.score + practicality.overall.score, 6),
         recommendation |-> OrElse(ai.recommendation,
             <<"Unable to generate specific recommendation.">>)]

(* ------------------------------- inputs -------------------------------- *)
Location(latitude, devDist, stabDist, country, displayName) ==
    [latitude |-> latitude, devDist |-> devDist, stabDist |-> stabDist,
     country |-> country, displayName |-> displayName]

\* sample coordinates with their great-circle distances to the anchors
Locations ==
    { Location(407, <<1510, 5570720, 10853231, 5837676, 15989161, 15333890>>,
               <<5873028, 6355294, 5884500, 10862831, 15986781, 542850, 325148>>,
               <<"United States">>, <<"New York">>),
      Location(0, <<6333877, 6375417, 15905889, 6252831, 16246934, 14878381>>,
               <<7503321, 6317128, 6639866, 15912610, 16254612, 6874156, 6442984>>,
               <<>>, <<>>),
      Location(650, <<4405857, 1814719, 8652774, 2157420, 16477736, 11299354>>,
               <<1525754, 2633030, 1946562, 8660383, 16470043, 4388647, 4714019>>,
               <<"Iceland">>, <<>>),
      Location(-750, <<13918133, 14066984, 15161348, 13773326, 7729680, 10547169>>,
               <<15029054, 13467599, 14126594, 15152026, 7737148, 14360571, 13804032>>,
               <<>>, <<>>),
      Location(-339, <<15990969, 16995996, 7829087, 16962205, 3574, 6307143>>,
               <<15984345, 16639501, 16655390, 7821552, 11119, 15576376, 15715518>>,
               <<"Australia">>, <<"Sydney">>),
      Location(600, <<5872231, 1134544, 8424702, 1332110, 15981857, 10089509>>,
               <<0, 1562291, 941667, 8430672, 15974911, 5894634, 6188381>>,
               <<"Norway">>, <<>>),
      Location(300, <<9022768, 3513068, 9567860, 3211469, 14417984, 8262994>>,
               <<3692178, 2683228, 3253648, 9568922, 14415417, 9207945, 9347125>>,
               <<"Egypt">>, <<"Cairo">>),
      Location(235, <<12685888, 7993932, 4933420, 7898345, 9083682, 2878254>>,
               <<7211271, 7555147, 7637892, 4928609, 9078522, 12474255, 12945713>>,
               <<>>, <<>>),
      Location(400, <<2195954, 7236546, 9622156, 7550015, 13818270, 14818887>>,
               <<7206207, 8080082, 7493414, 9631516, 13815353, 1756963, 1973138>>,
               <<"United States">>, <<>>),
      Location(-601, <<11215860, 13885118, 16572041, 13743745, 8907978, 13461056>>,
               <<15014623, 13729984, 14136746, 16566777, 8915477, 11562048, 11026955>>,
               <<>>, <<>>),
      Location(489, <<5838695, 341164, 9705771, 5959, 16955480, 10724776>>,
               <<1326419, 530139, 390720, 9711320, 16949672, 5999737, 6164259>>,
               <<"France">>, <<"Paris">>),
      Location(-1, <<9090688, 5758704, 13886349, 5449657, 14850905, 10988249>>,
               <<6696789, 5134498, 5793256, 13886619, 14855147, 9556604, 9323165>>,
               <<>>, <<>>) }

\* a coordinate below 60 degrees far from every anchor
RemoteLocation ==
    Location(-500, <<10179106, 12620714, 17769156, 12495289, 10195937, 14392750>>,
             <<13744452, 12516977, 12884678, 17765380, 10203436, 10574997, 10024496>>,
             <<"Falkland Islands">>, <<>>)

\* configurations that pass rocketConfigSchema ("" is an absent optional field)
RocketConfigs ==
    { RocketConfig(c, m, s) : c \in {"model", "industrial"}, m \in {"", "team_project"},
                              s \in {"", "beginner", "intermediate", "advanced"} }

Months == {0, 4, 5, 8, 9, 11}

PlainName == <<"St Mary">>
MarkerName == <<"CRITICAL", "Care">>

Node(id, dist, tags) == OSMElement("node", id, "latlon", dist, tags)

AirportElements ==
    { Node(1, d, Tags("aerodrome", "", "", "", "", <<>>, PlainName)) : d \in {0, 7999, 8000, 14999, 15000} }
    \cup { Node(2, 7999, Tags("airport", "", "", "", "", <<>>, <<>>)),
           OSMElement("way", 1, "center", 8000, Tags("airport", "", "", "", "", <<>>, <<>>)),
           OSMElement("node", 2, "none", Undefined, Tags("airport", "", "", "", "", <<>>, PlainName)) }

SchoolElements ==
    { Node(1, d, Tags("", "school", "", "", "", <<>>, PlainName)) : d \in {0, 499, 500, 1999, 2000} }
    \cup { Node(2, 499, Tags("", "university", "", "", "", <<>>, <<>>)),
           Node(2, 1999, Tags("", "college", "", "", "", <<>>, <<>>)) }

MilitaryElements ==
    { Node(1, d, Tags("", "", "barracks", "", "", <<>>, PlainName)) : d \in {4999, 5000, 9999, 10000, 15000} }
    \cup { OSMElement("way", 2, "center", 4999, Tags("", "", "", "military", "", <<>>, <<>>)) }

HospitalElements ==
    { Node(1, d, Tags("", "hospital", "", "", "", <<>>, PlainName)) : d \in {0, 1499, 1500} }
    \cup { Node(2, d, Tags("", "hospital", "", "", "", <<>>, MarkerName)) : d \in {0, 1499} }

PlaceElements ==
    { Node(1, 9999, Tags("", "", "", "", "city", <<"1", "0", "0", "0", "0", "1">>, PlainName)),
      Node(1, 10000, Tags("", "", "", "", "city", <<"1", "0", "0", "0", "0", "1">>, PlainName)),
      Node(2, 4999, Tags("", "", "", "", "city", <<"1", "0", "0", "0", "0", "0">>, <<>>)),
      Node(2, 5000, Tags("", "", "", "", "town", <<"5", "0", "0", "0", "1">>, <<>>)),
      Node(1, 4999, Tags("", "", "", "", "town", <<"5", "0", "0", "0", "0">>, <<>>)),
      Node(1, 100, Tags("", "", "", "", "city", <<"1", "0", "0", ",", "0", "0", "1">>, <<>>)),
      Node(2, 1999, Tags("", "", "", "", "suburb", <<>>, PlainName)),
      Node(2, 2000, Tags("", "", "", "", "suburb", <<>>, PlainName)),
      Node(1, 0, Tags("", "", "", "", "suburb", <<"a">>, MarkerName)) }

ZoneElements ==
    AirportElements \cup SchoolElements \cup MilitaryElements \cup HospitalElements
        \cup PlaceElements \cup { NullElement, Node(2, 100, NoTags) }

SeqsUpTo(S, n) == UNION { [1..k -> S] : k \in 0..n }

FailedOutcomes ==
    { OverpassOutcome("reject", FALSE, "invalid", NullData),
      OverpassOutcome("resolve", FALSE, "valid", NoElementsData),
      OverpassOutcome("resolve", TRUE, "invalid", NullData),
      OverpassOutcome("resolve", TRUE, "valid", NullData) }

ShapelessOutcomes ==
    { OverpassOutcome("resolve", TRUE, "valid", NoElementsData),
      OverpassOutcome("resolve", TRUE, "valid", NonListData) }

\* what the provider may do in the zone-validation route
ZoneOverpassOutcomes ==
    FailedOutcomes \cup ShapelessOutcomes
        \cup { OverpassOutcome("resolve", TRUE, "valid", ListData(items)) :
                   items \in SeqsUpTo(ZoneElements, MaxElements) }

\* n distinct facilities of one kind
HospitalRow(n) == [i \in 1..n |-> Node(i, 1000, Tags("", "hospital", "", "", "", <<>>, PlainName))]
MilitaryRow(n) == [i \in 1..n |-> Node(i, 3000, Tags("", "", "base", "", "", <<>>, <<>>))]

\* what the provider may do in the analysis route
AnalyzeOverpassOutcomes ==
    FailedOutcomes \cup ShapelessOutcomes
        \cup { OverpassOutcome("resolve", TRUE, "valid", ListData(<<NullElement>>)) }
        \cup { OverpassOutcome("resolve", TRUE, "valid", ListData(HospitalRow(n))) : n \in 0..MaxAnalyzeElements }
        \cup { OverpassOutcome("resolve", TRUE, "valid", ListData(MilitaryRow(n))) : n \in 1..MaxAnalyzeElements }

FullInsights ==
    Insights(<<"ai resources">>, <<"ai legal">>, <<"ai geographical">>,
             <<"ai geopolitical">>, <<"ai recommendation">>)

PartialInsights ==
    Insights(<<"ai resources">>, <<>>, <<"ai geographical">>, <<>>, <<>>)

NarrativeOutcomes ==
    { NarrativeOutcome("reject", "null", NoInsights),
      NarrativeOutcome("resolve", "null", NoInsights),
      NarrativeOutcome("resolve", "invalid", NoInsights),
      NarrativeOutcome("resolve", "jsonnull", NoInsights),
      NarrativeOutcome("resolve", "object", FullInsights),
      NarrativeOutcome("resolve", "object", PartialInsights) }

(* ------------------- static-list engine (earlier variant) -------------- *)
\* most entries of RESTRICTED_ZONES near one location in the zone route
MaxNearbyZones == 2

\* an entry of RESTRICTED_ZONES with calculateDistance(location, entry)
Zone(kind, name, radius, dist) ==
    [kind |-> kind, name |-> name, radius |-> radius, dist |-> dist]

\* variant: the military loop warns within half the radius only
StaticZoneWarnings_MilitaryHalfRadius(z) ==
    IF z.kind = "airport" THEN
        IF z.dist < z.radius THEN
            << Warning("airport", <<"Within restricted zone of">> \o z.name
                                      \o <<"Launch activities prohibited.">>, z.dist, 0) >>
        ELSE IF z.dist < z.radius * 2 THEN
            << Warning("airport", <<"Near">> \o z.name
                                      \o <<"Exercise caution and check airspace regulations.">>,
                       z.dist, 0) >>
        ELSE << >>
    ELSE IF z.kind = "military" THEN
        IF 2 * z.dist < z.radius THEN
            << Warning("military", <<"Within">> \o z.name
                                       \o <<"Military restricted zone - launches strictly prohibited.">>,
                       z.dist, 0) >>
        ELSE << >>
    ELSE
        IF z.dist < z.radius THEN
            << Warning("school", <<"Within">> \o z.name
                                     \o <<"Launch activities near educational facilities pose safety risks.">>,
                       z.dist, 0) >>
        ELSE IF 2 * z.dist < z.radius * 5 THEN
            << Warning("school", <<"Near">> \o z.name
                                     \o <<"Ensure proper safety protocols">>, z.dist, 0) >>
        ELSE << >>

\* the body of the airport, military and school loops for one entry
StaticZoneWarnings(z) ==
    IF z.kind = "airport" THEN
        IF z.dist < z.radius THEN
            << Warning("airport", <<"Within restricted zone of">> \o z.name
                                      \o <<"Launch activities prohibited.">>, z.dist, 0) >>
        ELSE IF z.dist < z.radius * 2 THEN
            << Warning("airport", <<"Near">> \o z.name
                                      \o <<"Exercise caution and check airspace regulations.">>,
                       z.dist, 0) >>
        ELSE << >>
    ELSE IF z.kind = "military" THEN
        IF z.dist < z.radius THEN
            << Warning("military", <<"Within">> \o z.name
                                       \o <<"Military restricted zone - launches strictly prohibited.">>,
                       z.dist, 0) >>
        ELSE << >>
    ELSE
        IF z.dist < z.radius THEN
            << Warning("school", <<"Within">> \o z.name
                                     \o <<"Launch activities near educational facilities pose safety risks.">>,
                       z.dist, 0) >>
        ELSE IF 2 * z.dist < z.radius * 5 THEN
            << Warning("school", <<"Near">> \o z.name
                                     \o <<"Ensure proper safety protocols">>, z.dist, 0) >>
        ELSE << >>

\* one for-of loop over the entries of one kind, in list order
RECURSIVE StaticLoop(_, _, _, _)
StaticLoop(zones, kind, i, warnings) ==
    IF i > Len(zones) THEN warnings
    ELSE IF zones[i].kind = kind THEN
        StaticLoop(zones, kind, i + 1, warnings \o StaticZoneWarnings(zones[i]))
    ELSE StaticLoop(zones, kind, i + 1, warnings)

StaticWarnings(latitude, zones) ==
    LET w1 == StaticLoop(zones, "airport", 1, << >>)
        w2 == StaticLoop(zones, "military", 1, w1)
        w3 == StaticLoop(zones, "school", 1, w2)
    IN  IF Abs(latitude) > 600 THEN w3 \o << HighLatitudeWarning >> ELSE w3

staticIsValid(warnings) ==
    ~\E i \in 1..Len(warnings) : warnings[i].type \in {"airport", "military", "school"}

staticHasCriticalViolation(warnings) ==
    \E i \in 1..Len(warnings) :
        LET w == warnings[i]
        IN  IF Falsy(w.distance) THEN FALSE
            ELSE IF w.type = "airport" /\ w.distance < 15000 THEN TRUE
            ELSE IF w.type = "military" /\ w.distance < 10000 THEN TRUE
            ELSE IF w.type = "school" /\ w.distance < 2000 THEN TRUE
            ELSE FALSE

staticValidateZone(loc, zones) ==
    LET warnings == StaticWarnings(loc.latitude, zones)
    IN  [isValid |-> staticIsValid(warnings), warnings |-> warnings,
         severity |-> IF staticHasCriticalViolation(warnings) THEN "danger"
                      ELSE IF Len(warnings) > 0 THEN "caution" ELSE "safe"]

\* a FeasibilityScore of the live engine with the static variant's details
\* (the score expressions of the two variants are the same text)
Detailed(f, details) == createFeasibilityScore(f.score, details)

\* variant: the upper tier taken exclusively (> 70 instead of >= 70)
staticRecommendation_StrictTier(cfg, zv, resources, legal, geographical, overallScore) ==
    IF overallScore > 7000 THEN
        <<"This location shows strong feasibility for",
          IF cfg.category = "model" THEN "model rocket" ELSE "industrial rocket",
          "activities. Proceed with detailed planning">>
    ELSE IF overallScore >= 4000 THEN
        <<"This location presents moderate feasibility with some challenges">>
            \o (IF Len(zv.warnings) > 0 THEN <<"Zone restrictions require careful navigation.">>
                ELSE << >>)
            \o <<"Consider developing mitigation strategies">>
    ELSE
        <<"This location faces significant challenges for rocket launch activities.">>
            \o (IF zv.severity = "danger"
                THEN <<"Critical zone violations make this location unsuitable.">> ELSE << >>)
            \o <<"Multiple factors including">>
            \o (IF legal.overall.score < 5000 THEN <<"regulatory barriers,">> ELSE << >>)
            \o (IF resources.overall.score < 5000 THEN <<"resource limitations,">> ELSE << >>)
            \o <<"and">>
            \o (IF geographical.overall.score < 5000 THEN <<"geographical constraints">>
                ELSE <<"other challenges">>)
            \o <<"suggest exploring alternative locations would be advisable.">>

\* the recommendation of the static variant (part_001 lines 496-519)
staticRecommendation(cfg, zv, resources, legal, geographical, overallScore) ==
    IF overallScore >= 7000 THEN
        <<"This location shows strong feasibility for",
          IF cfg.category = "model" THEN "model rocket" ELSE "industrial rocket",
          "activities. Proceed with detailed planning">>
    ELSE IF overallScore >= 4000 THEN
        <<"This location presents moderate feasibility with some challenges">>
            \o (IF Len(zv.warnings) > 0 THEN <<"Zone restrictions require careful navigation.">>
                ELSE << >>)
            \o <<"Consider developing mitigation strategies">>
    ELSE
        <<"This location faces significant challenges for rocket launch activities.">>
            \o (IF zv.severity = "danger"
                THEN <<"Critical zone violations make this location unsuitable.">> ELSE << >>)
            \o <<"Multiple factors including">>
            \o (IF legal.overall.score < 5000 THEN <<"regulatory barriers,">> ELSE << >>)
            \o (IF resources.overall.score < 5000 THEN <<"resource limitations,">> ELSE << >>)
            \o <<"and">>
            \o (IF geographical.overall.score < 5000 THEN <<"geographical constraints">>
                ELSE <<"other challenges">>)
            \o <<"suggest exploring alternative locations would be advisable.">>

weatherDetails(loc) ==
    LET lat == Abs(loc.latitude)
    IN  IF lat < 235 THEN <<"Tropical climate">>
        ELSE IF lat < 400 THEN <<"Temperate climate">>
        ELSE IF lat < 600 THEN <<"Mid-latitude location">>
        ELSE <<"High-latitude location">>

\* analyzeLocation of the static variant after validateZone
staticAnalyzeLocation(loc, cfg, zv, month) ==
    LET isModelRocket == cfg.category = "model"
        developmentLevel == assessDevelopmentLevel(loc)
        politicalStability == assessPoliticalStability(loc)
        r == resourcesAnalysis(cfg, developmentLevel, NoInsights)
        l == legalAnalysis(cfg, zv, politicalStability, NoInsights)
        g == geographicalAnalysis(loc, developmentLevel, NoInsights)
        p == geopoliticalAnalysis(politicalStability, NoInsights)
        resources ==
            [materials |-> Detailed(r.materials,
                 IF isModelRocket THEN <<"Model rocket materials are widely available">>
                 ELSE <<"Industrial rocket components require specialized suppliers">>),
             expertise |-> Detailed(r.expertise, <<"Technical expertise availability varies by location.">>),
             facilities |-> Detailed(r.facilities,
                 IF isModelRocket THEN <<"Model rockets require minimal facilities">>
                 ELSE <<"Industrial rockets need extensive infrastructure">>),
             overall |-> Detailed(r.overall, <<"Overall resource availability assessment">>)]
        legal ==
            [permits |-> Detailed(l.permits,
                 IF isModelRocket THEN <<"Model rockets typically require minimal permits">>
                 ELSE <<"Industrial launches require extensive permits">>),
             regulations |-> Detailed(l.regulations, <<"Regulatory framework varies significantly by country.">>),
             restrictions |-> Detailed(l.restrictions,
                 IF Len(zv.warnings) > 0 THEN <<"Location has proximity restrictions">>
                 ELSE <<"No major restrictions identified for this location.">>),
             overall |-> Detailed(l.overall, <<"Legal and regulatory assessment">>)]
        geographical ==
            [terrain |-> Detailed(g.terrain, <<"Terrain suitability based on latitude">>),
             weather |-> Detailed(g.weather, weatherDetails(loc)),
             accessibility |-> Detailed(g.accessibility, <<"Accessibility depends on local infrastructure">>),
             overall |-> Detailed(g.overall, <<"Geographical suitability assessment">>)]
        geopolitical ==
            [stability |-> Detailed(p.stability, <<"Political stability affects long-term project viability">>),
             cooperation |-> Detailed(p.cooperation, <<"International cooperation level">>),
             risks |-> Detailed(p.risks, <<"Geopolitical risk assessment">>),
             overall |-> Detailed(p.overall, <<"Geopolitical environment assessment">>)]
        timing == timingAnalysis(loc, month)
        practicality == practicalityAnalysis(cfg, zv, developmentLevel, politicalStability)
        overallScore == RoundedMean(
             resources.overall.score + legal.overall.score + geographical.overall.score
             + geopolitical.overall.score + timing.overall.score + practicality.overall.score, 6)
    IN  [location |-> loc, rocketConfig |-> cfg, zoneValidation |-> zv,
         resources |-> resources, legal |-> legal, geographical |-> geographical,
         geopolitical |-> geopolitical, timing |-> timing, practicality |-> practicality,
         overallScore |-> overallScore,
         recommendation |-> staticRecommendation(cfg, zv, resources, legal, geographical,
                                                 overallScore)]

\* entries of the list at sample distances
StaticZones ==
    { Zone("airport", <<"JFK International Airport">>, 15000, d) : d \in {0, 7999, 8000, 14999} }
    \cup { Zone("airport", <<"Heathrow Airport">>, 15000, d) : d \in {15000, 29999, 30000} }
    \cup { Zone("military", <<"Pentagon">>, 10000, d) : d \in {4999, 5000, 9999, 10000} }
    \cup { Zone("military", <<"Edwards Air Force Base">>, 20000, d) : d \in {15000, 19999, 20000} }
    \cup { Zone("school", <<"MIT">>, 2000, d) : d \in {0, 499, 500, 1999} }
    \cup { Zone("school", <<"Oxford University">>, 2000, d) : d \in {2000, 4999, 5000} }

\* each entry of the list is met once
DistinctEntries(zones) ==
    \A i, j \in 1..Len(zones) : i # j => zones[i].name # zones[j].name

\* the entries near the location in the zone route of the static variant
NearbyZoneLists == { zones \in SeqsUpTo(StaticZones, MaxNearbyZones) : DistinctEntries(zones) }

\* the entries near the location in the analysis route of the static variant
AnalyzeZoneLists ==
    { << >>,
      << Zone("airport", <<"Heathrow Airport">>, 15000, 29999) >>,
      << Zone("airport", <<"JFK International Airport">>, 15000, 7999) >>,
      << Zone("airport", <<"JFK International Airport">>, 15000, 7999),
         Zone("military", <<"Pentagon">>, 10000, 4999),
         Zone("school", <<"MIT">>, 2000, 499) >> }

(* --------------------------- storage and routes ------------------------ *)
\* concurrent POST /api/analyze requests
MaxRequests == 3

Requests == 1..MaxRequests

\* either version of server/storage.ts may be the exported `storage`
StorageKinds == {"MemStorage", "DatabaseStorage"}

\* an AnalysisResult as far as storage and routes look at it: its id (the
\* n-th randomUUID() of the process) and its content
Analysis(id, overallScore) == [id |-> id, overallScore |-> overallScore]

\* `undefined` where an AnalysisResult is expected
NoAnalysis == Analysis(0, Undefined)

\* contents analyzeLocation may resolve with
RouteScores == {6200, 7800}

\* this.analyses: the entries of the Map in insertion order
MemStorage_saveAnalysis(map, analysis) ==
    IF \E i \in 1..Len(map) : map[i].key = analysis.id
    THEN [i \in 1..Len(map) |->
              IF map[i].key = analysis.id THEN [key |-> analysis.id, value |-> analysis]
              ELSE map[i]]
    ELSE Append(map, [key |-> analysis.id, value |-> analysis])

MemStorage_getAnalysis(map, id) ==
    IF \E i \in 1..Len(map) : map[i].key = id
    THEN (CHOOSE e \in { map[i] : i \in 1..Len(map) } : e.key = id).value
    ELSE NoAnalysis

MemStorage_getAllAnalyses(map) == [i \in 1..Len(map) |-> map[i].value]

\* the absent session of a saved row
NoSession == << >>

\* session ids a caller of getAllAnalyses may pass
SessionIds == { <<"default">>, <<"s1">> }

\* variant: the insert files the row under a default session
SavedRow_DefaultSession(id, analysis, now) ==
    [id |-> id, analysisId |-> analysis.id, sessionId |-> <<"default">>,
     analysisData |-> analysis, createdAt |-> now]

\* a row of saved_analyses; createdAt is defaultNow() of the insert
SavedRow(id, analysis, now) ==
    [id |-> id, analysisId |-> analysis.id, sessionId |-> NoSession,
     analysisData |-> analysis, createdAt |-> now]

DatabaseStorage_saveAnalysis(rows, analysis, now) ==
    Append(rows, SavedRow(Len(rows) + 1, analysis, now))

\* variant: the row is looked up by its serial id instead of analysis_id
DatabaseStorage_getAnalysis_BySerial(rows, id) ==
    IF \E i \in 1..Len(rows) : rows[i].id = id
    THEN (CHOOSE r \in { rows[i] : i \in 1..Len(rows) } : r.id = id).analysisData
    ELSE NoAnalysis

DatabaseStorage_getAnalysis(rows, id) ==
    IF \E i \in 1..Len(rows) : rows[i].analysisId = id
    THEN (CHOOSE r \in { rows[i] : i \in 1..Len(rows) } : r.analysisId = id).analysisData
    ELSE NoAnalysis

\* ORDER BY created_at DESC: the latest row first, then the rest
RECURSIVE OrderByCreatedAtDesc(_)
OrderByCreatedAtDesc(rows) ==
    IF rows = << >> THEN << >>
    ELSE LET k == CHOOSE i \in 1..Len(rows) :
                      \A j \in 1..Len(rows) :
                          \/ rows[j].createdAt < rows[i].createdAt
                          \/ rows[j].createdAt = rows[i].createdAt /\ i <= j
             rest == [j \in 1..(Len(rows) - 1) |-> IF j < k THEN rows[j] ELSE rows[j + 1]]
         IN  << rows[k] >> \o OrderByCreatedAtDesc(rest)

RowData(rows) == [i \in 1..Len(rows) |-> rows[i].analysisData]

DatabaseStorage_getAllAnalyses(rows, sessionId) ==
    LET selected == IF sessionId # NoSession
                    THEN SelectSeq(rows, LAMBDA r : r.sessionId = sessionId)
                    ELSE rows
    IN  RowData(OrderByCreatedAtDesc(selected))

DatabaseStorage_getRecentAnalyses(rows, limit) ==
    LET ordered == OrderByCreatedAtDesc(rows)
    IN  RowData(SubSeq(ordered, 1, Min(limit, Len(ordered))))

\* a response of a route that carries at most one AnalysisResult
Response(status, analysis, error) ==
    [status |-> status, analysis |-> analysis, error |-> error]

\* GET /api/analyses/:id; lookup: the storage call resolves or rejects
GetAnalysisById(kind, map, rows, id, lookup) ==
    IF lookup = "error" THEN Response(500, NoAnalysis, <<"Failed to retrieve analysis">>)
    ELSE LET analysis == IF kind = "MemStorage" THEN MemStorage_getAnalysis(map, id)
                         ELSE DatabaseStorage_getAnalysis(rows, id)
         IN  IF analysis = NoAnalysis
             THEN Response(404, NoAnalysis, <<"Analysis not found">>)
             ELSE Response(200, analysis, << >>)

\* GET /api/analyses answers 200 with this list when the storage call resolves
GetAnalyses(kind, map, rows) ==
    IF kind = "MemStorage" THEN MemStorage_getAllAnalyses(map)
    ELSE DatabaseStorage_getAllAnalyses(rows, NoSession)

\* one POST /api/analyze: where its handler is, what analyzeLocation
\* resolved with, how saveAnalysis settled, and what was answered
Post(at, analysis, save, response) ==
    [pc |-> at, result |-> analysis, save |-> save, response |-> response]

NoPost == Post("idle", NoAnalysis, "none", Response(0, NoAnalysis, << >>))

InitRoutes(kind) ==
    /\ storageKind = kind
    /\ analyses = << >>
    /\ savedAnalyses = << >>
    /\ dbClock = 0
    /\ nextId = 1
    /\ requests = [r \in Requests |-> NoPost]
    /\ saveLog = << >>

(* ------------------------- values before a request --------------------- *)
NoLocation == Location(0, <<>>, <<>>, <<>>, <<>>)
NoRocketConfig == RocketConfig("", "", "")
NoOutcome == OverpassOutcome("none", FALSE, "none", NullData)
NoValidation == [isValid |-> FALSE, warnings |-> <<>>, severity |-> "none"]
NoNarrative == NarrativeOutcome("none", "none", NoInsights)
NoResult == [overallScore |-> Undefined]

NoRequest == [displayName |-> <<>>, country |-> <<>>, rocketType |-> <<>>, zoneWarnings |-> <<>>]

(* ------------------------- concurrent analyses ------------------------- *)
\* analyzeLocation calls in flight at the same time
MaxCalls == 2

Calls == 1..MaxCalls

\* one analyzeLocation call: where it is suspended, its arguments, the
\* `warnings` array of its validateZone, what the providers answered, what it
\* computed; overlapped: another call was in flight when this one resumed
Call(at, loc, cfg, warnings, overpassOutcome, zv, request, narrativeOutcome, month, res, overlapped) ==
    [pc |-> at, location |-> loc, rocketConfig |-> cfg, warnings |-> warnings,
     overpass |-> overpassOutcome, zoneValidation |-> zv, narrativeRequest |-> request,
     narrative |-> narrativeOutcome, currentMonth |-> month, result |-> res,
     overlapped |-> overlapped]

NoCall ==
    Call("idle", NoLocation, NoRocketConfig, << >>, NoOutcome, NoValidation, NoRequest,
         NoNarrative, Undefined, NoResult, FALSE)

InitCalls == calls = [c \in Calls |-> NoCall]

\* validateZone resumed after the provider settled, pushing to the array
\* `warnings` it created before suspending (line 113)
validateZoneFrom(warnings, loc, osmData) ==
    LET all == warnings \o ZoneWarnings(loc.latitude, osmData)
    IN  [isValid |-> isValidOf(all), warnings |-> all, severity |-> severityOf(all)]

\* variant: one module-level `warnings` array shared by all calls, holding
\* what the calls that resumed earlier have pushed
WarningsArray_ModuleLevel(cs, c) ==
    IF \E d \in DOMAIN cs : d # c /\ cs[d].pc \in {"narrative", "done"}
    THEN cs[CHOOSE d \in DOMAIN cs : d # c /\ cs[d].pc \in {"narrative", "done"}]
             .zoneValidation.warnings
    ELSE cs[c].warnings

\* the `warnings` array that call c pushes to
WarningsArray(cs, c) == cs[c].warnings

ConcurrentLocations == { loc \in Locations : loc.latitude \in {407, 650} }

ConcurrentConfigs == { RocketConfig("model", "", "advanced"), RocketConfig("industrial", "", "") }

ConcurrentOverpassOutcomes ==
    { OverpassOutcome("reject", FALSE, "invalid", NullData),
      OverpassOutcome("resolve", TRUE, "valid", ListData(MilitaryRow(1))),
      OverpassOutcome("resolve", TRUE, "valid", ListData(<<NullElement>>)) }

ConcurrentNarrativeOutcomes ==
    { NarrativeOutcome("reject", "null", NoInsights),
      NarrativeOutcome("resolve", "object", FullInsights) }

ConcurrentMonth == 6

(* ------------------- estimator inputs: anchor geometry ----------------- *)
\* the coordinates of the anchors themselves, in list order (the `developed`
\* list, then the `stable` list)
AnchorLocations ==
    { Location(407, <<0, 5570222, 10851733, 5837241, 15988756, 15332498>>,
               <<5872231, 6354891, 5883954, 10861334, 15986372, 541573, 325604>>, <<>>, <<>>),
      Location(515, <<5570222, 0, 9558561, 343556, 16993933, 10847845>>,
               <<1134544, 853459, 357116, 9564483, 16987580, 5710920, 5895718>>, <<>>, <<>>),
      Location(357, <<10851733, 9558561, 0, 9711725, 7825819, 5311224>>,
               <<8424702, 9723907, 9317495, 9615, 7818135, 10360032, 10908660>>, <<>>, <<>>),
      Location(489, <<5837241, 343556, 9711725, 0, 16960497, 10729024>>,
               <<1332110, 530232, 396609, 9717273, 16954694, 5998875, 6162799>>, <<>>, <<>>),
      Location(0 - 339, <<15988756, 16993933, 7825819, 16960497, 0, 6306251>>,
               <<15981857, 16638238, 16653432, 7818284, 7698, 15573922, 15713432>>, <<>>, <<>>),
      Location(14, <<15332498, 10847845, 5311224, 10729024, 6306251, 0>>,
               <<10089509, 10348204, 10490783, 5302441, 6301865, 15006973, 15538472>>, <<>>, <<>>),
      Location(600, <<5872231, 1134544, 8424702, 1332110, 15981857, 10089509>>,
               <<0, 1562291, 941667, 8430672, 15974911, 5894634, 6188381>>, <<>>, <<>>),
      Location(460, <<6354891, 853459, 9723907, 530232, 16638238, 10348204>>,
               <<1562291, 0, 701988, 9728783, 16633179, 6525288, 6680253>>, <<>>, <<>>),
      Location(520, <<5883954, 357116, 9317495, 396609, 16653432, 10490783>>,
               <<941667, 701988, 0, 9323097, 16647236, 6005128, 6208983>>, <<>>, <<>>),
      Location(356, <<10861334, 9564483, 9615, 9717273, 7818284, 5302441>>,
               <<8430672, 9728783, 9323097, 0, 7810601, 10369646, 10918275>>, <<>>, <<>>),
      Location(0 - 338, <<15986372, 16987580, 7818135, 16954694, 7698, 6301865>>,
               <<15974911, 16633179, 16647236, 7810601, 0, 15570901, 15711380>>, <<>>, <<>>),
      Location(436, <<541573, 5710920, 10360032, 5998875, 15573922, 15006973>>,
               <<5894634, 6525288, 6005128, 10369646, 15570901, 0, 556803>>, <<>>, <<>>),
      Location(389, <<325604, 5895718, 10908660, 6162799, 15713432, 15538472>>,
               <<6188381, 6680253, 6208983, 10918275, 15711380, 556803, 0>>, <<>>, <<>>) }

\* coordinates whose two nearest anchors are at the same distance: London
\* and Paris, Sydney and Singapore (`developed`); anchors 2 and 3, anchors 4
\* and 5 (`stable`)
EquidistantLocations ==
    { Location(501, <<5690863, 172860, 9652320, 172860, 17000878, 10806804>>,
               <<1241190, 696001, 355216, 9658067, 16994794, 5843857, 6016466>>, <<>>, <<>>),
      Location(0 - 150, <<16475081, 13865354, 5772809, 13797255, 3175118, 3175118>>,
               <<12957114, 13463426, 13514182, 5763451, 3169963, 15940324, 16433898>>, <<>>, <<>>),
      Location(489, <<6099356, 538495, 9538198, 288938, 16684492, 10441701>>,
               <<1251459, 351686, 351686, 9543458, 16678833, 6247507, 6424954>>, <<>>, <<>>),
      Location(9, <<13913625, 13349459, 3912855, 13446552, 3912988, 4622843>>,
               <<12234263, 13343630, 13067233, 3905306, 3905306, 13372130, 13831471>>, <<>>, <<>>) }

\* latitudes -60, -30, 0, 30, 60 at longitudes -150, -100, -50, 0, 50, 100, 150
GridLocations ==
    { Location(0 - 600, <<13147609, 17931436, 12411827, 17864834, 5087522, 11029535>>,
               <<18907380, 17892347, 18239786, 12406824, 5094174, 13179460, 12839857>>, <<>>, <<>>),
      Location(0 - 600, <<11448332, 15232128, 15040096, 15152001, 7736920, 13180652>>,
               <<16308789, 15223843, 15528432, 15036184, 7743957, 11673475, 11197180>>, <<>>, <<>>),
      Location(0 - 600, <<11412026, 13177311, 17222832, 12990119, 9397591, 13117712>>,
               <<14308806, 12902432, 13386681, 17215419, 9405270, 11825314, 11271687>>, <<>>, <<>>),
      Location(0 - 600, <<13056106, 12399062, 16073084, 12106168, 9248929, 10901370>>,
               <<13371368, 11809077, 12461883, 16063516, 9256143, 13566393, 13026321>>, <<>>, <<>>),
      Location(0 - 600, <<15675431, 13185024, 13362464, 12843283, 7372376, 8234993>>,
               <<13782762, 12386936, 13087111, 13352922, 7378377, 16206396, 15687251>>, <<>>, <<>>),
      Location(0 - 600, <<17830834, 15244911, 11240644, 14911609, 4674259, 6830101>>,
               <<15410547, 14391573, 15030804, 11231154, 4679982, 18190880, 17659454>>, <<>>, <<>>),
      Location(0 - 600, <<16331734, 17945247, 10681032, 17618563, 2906994, 7894189>>,
               <<17825314, 17093239, 17698142, 10673006, 2914622, 16283804, 16014186>>, <<>>, <<>>),
      Location(0 - 300, <<11078193, 16572807, 10358328, 16878927, 5489066, 11637492>>,
               <<16360196, 17408341, 16824894, 10357155, 5491572, 10886515, 10754208>>, <<>>, <<>>),
      Location(0 - 300, <<8306094, 13224559, 14490967, 13331803, 9707843, 15956239>>,
               <<13958163, 13684066, 13581441, 14493741, 9712919, 8451253, 8023432>>, <<>>, <<>>),
      Location(0 - 300, <<8242430, 10287607, 18915460, 10189121, 12571884, 15797464>>,
               <<11397915, 10268029, 10570112, 18923820, 12579369, 8710972, 8156061>>, <<>>, <<>>),
      Location(0 - 300, <<10936289, 9063218, 16219704, 8771571, 12296103, 11411629>>,
               <<10049455, 8489228, 9131035, 16214831, 12302569, 11475433, 11046599>>, <<>>, <<>>),
      Location(0 - 300, <<14887800, 10299354, 11864151, 9960829, 9119979, 6676863>>,
               <<10654071, 9450007, 10115800, 11856419, 9123174, 15334346, 15124822>>, <<>>, <<>>),
      Location(0 - 300, <<18706576, 13241811, 8397347, 12998176, 4802114, 3509675>>,
               <<12860684, 12495518, 12913533, 8387795, 4802533, 18501568, 18988114>>, <<>>, <<>>),
      Location(0 - 300, <<15897194, 16587728, 7382664, 16576912, 445057, 6005478>>,
               <<15554175, 16288267, 16254124, 7375088, 437451, 15447018, 15643049>>, <<>>, <<>>),
      Location(0, <<8832120, 13629169, 8244787, 13971542, 7173977, 11806185>>,
               <<13123706, 14466063, 13778845, 8247514, 7172346, 8467701, 8545100>>, <<>>, <<>>),
      Location(0, <<5232151, 10688712, 12702135, 10907237, 11732495, 17362431>>,
               <<11102430, 11385877, 11027076, 12709175, 11734764, 5265910, 4919694>>, <<>>, <<>>),
      Location(0, <<5134719, 7377827, 15924171, 7372714, 15647483, 17100375>>,
               <<8397717, 7605813, 7708164, 15933577, 15654251, 5652822, 5125928>>, <<>>, <<>>),
      Location(0, <<8667068, 5727374, 14260630, 5437295, 15199450, 11543799>>,
               <<6727437, 5174573, 5801055, 14261670, 15204291, 9148331, 8886417>>, <<>>, <<>>),
      Location(0, <<12796624, 7392614, 9975956, 7081853, 11040392, 5985786>>,
               <<7503321, 6551625, 7137955, 9971378, 11040377, 13043359, 13112972>>, <<>>, <<>>),
      Location(0, <<15447701, 10706236, 5702582, 10566114, 6522258, 450529>>,
               <<10007543, 10162012, 10349566, 5693989, 6518348, 15166489, 15678795>>, <<>>, <<>>),
      Location(0, <<13681210, 13639670, 4109198, 13762255, 3768152, 5136706>>,
               <<12511766, 13697959, 13375220, 4102477, 3760475, 13140931, 13572103>>, <<>>, <<>>),
      Location(300, <<6781451, 10484946, 6462423, 10826584, 9408082, 11482579>>,
               <<9841153, 11278149, 10576711, 6469151, 9403610, 6281327, 6590222>>, <<>>, <<>>),
      Location(300, <<2627328, 8073507, 10414656, 8367160, 13419199, 15709890>>,
               <<8166857, 8894820, 8358149, 10423676, 13417706, 2372248, 2320804>>, <<>>, <<>>),
      Location(300, <<2469863, 4711940, 12642795, 4844433, 17971902, 15558590>>,
               <<5503554, 5256873, 5069056, 12651880, 17973586, 2992107, 2653677>>, <<>>, <<>>),
      Location(300, <<6620030, 2391537, 11581445, 2106202, 17273523, 11257970>>,
               <<3418739, 1909778, 2480566, 11585726, 17272798, 6953258, 6922034>>, <<>>, <<>>),
      Location(300, <<10268817, 4729327, 8093740, 4503478, 12758006, 6501949>>,
               <<4460911, 4027635, 4398257, 8093194, 12754494, 10341638, 10592130>>, <<>>, <<>>),
      Location(300, <<12127974, 8089311, 3732246, 8061657, 8907307, 3210967>>,
               <<7154403, 7806312, 7746209, 3727974, 8901146, 11830829, 12347450>>, <<>>, <<>>),
      Location(300, <<10941174, 10492628, 1153632, 10676569, 7103023, 5817638>>,
               <<9361016, 10737927, 10279979, 1153334, 7095357, 10416553, 10938925>>, <<>>, <<>>),
      Location(600, <<5443933, 7325425, 5569175, 7656091, 11732856, 10766568>>,
               <<6560213, 8060144, 7361782, 5578655, 11726381, 4914888, 5435531>>, <<>>, <<>>),
      Location(600, <<2791490, 5710593, 8067383, 6051538, 14238578, 12887817>>,
               <<5376987, 6556056, 5885750, 8076996, 14232979, 2292794, 2843821>>, <<>>, <<>>),
      Location(600, <<2706839, 3174630, 9339570, 3496880, 16725940, 12826326>>,
               <<3219652, 4024580, 3424282, 9348395, 16719135, 2677333, 3008778>>, <<>>, <<>>),
      Location(600, <<5335842, 944367, 8753746, 1248194, 16437898, 10639091>>,
               <<555445, 1643385, 941667, 8760243, 16430686, 5377325, 5654160>>, <<>>, <<>>),
      Location(600, <<7709610, 3188778, 6616025, 3235433, 13820048, 7962448>>,
               <<2189773, 3138676, 2871934, 6620289, 13813381, 7607342, 8001775>>, <<>>, <<>>),
      Location(600, <<8802897, 5721738, 3906861, 5840693, 11437336, 6529630>>,
               <<4604540, 5820985, 5452357, 3911399, 11429980, 8495115, 9014469>>, <<>>, <<>>),
      Location(600, <<8117825, 7330270, 2805152, 7563598, 10438325, 7616621>>,
               <<6232325, 7734440, 7173724, 2814393, 10430666, 7653711, 8209764>>, <<>>, <<>>) }

EstimatorLocations ==
    Locations \cup {RemoteLocation} \cup AnchorLocations \cup EquidistantLocations
        \cup GridLocations

\* the estimates analyzeLocation holds (an estimate not made yet is Undefined)
Estimates(developmentLevel, politicalStability) ==
    [developmentLevel |-> developmentLevel, politicalStability |-> politicalStability]

InitEstimates == estimates = Estimates(Undefined, Undefined)

(* ---------------------- Home page and LocationPicker ------------------- *)
\* most handleLocationSelect calls in flight at a time
MaxFlows == 2
\* most validate-zone mutations of one LocationPicker in flight at a time
MaxValidations == 2

\* the configurations RocketTypeSelector can hand to handleRocketSelect
WizardConfigs == ConcurrentConfigs

\* what LocationPicker stores for a map click: the coordinates only
Coordinates(loc) == Location(loc.latitude, loc.devDist, loc.stabDist, << >>, << >>)

PickedLocations == { Coordinates(loc) : loc \in ConcurrentLocations }

\* `{...location, country, city, state, displayName}` with the answer of
\* POST /api/reverse-geocode
EnrichedLocation(picked) ==
    CHOOSE loc \in ConcurrentLocations : Coordinates(loc) = picked

\* the answer of POST /api/analyze to a request body: the AnalysisResult of
\* that body's location and rocketConfig (null is NoAnalysisResult)
AnalysisResultFor(loc, cfg) == [location |-> loc, rocketConfig |-> cfg]

NoAnalysisResult == AnalysisResultFor(NoLocation, NoRocketConfig)

\* the useState values of Home (null is NoRocketConfig, NoLocation,
\* NoAnalysisResult)
HomeState(currentStep, config, selectedLocation, analysisResult) ==
    [currentStep |-> currentStep, rocketConfig |-> config,
     selectedLocation |-> selectedLocation, analysisResult |-> analysisResult]

\* one call of handleLocationSelect: where it is suspended (`geocode`, or
\* `analyze` inside the try block or inside the catch block), its argument,
\* the rocketConfig its closure captured, the location of its analyze request
Flow(at, block, loc, cfg, requestLocation) ==
    [at |-> at, block |-> block, location |-> loc, rocketConfig |-> cfg,
     requestLocation |-> requestLocation]

\* the answer of POST /api/validate-zone to a request for `loc`
ZoneAnswer(loc, validation) == [location |-> loc, validation |-> validation]

NoZoneAnswer == ZoneAnswer(NoLocation, NoValidation)

\* the useState values of a LocationPicker (a new mount starts with null)
PickerState(selectedLocation, zoneAnswer) ==
    [selectedLocation |-> selectedLocation, zoneValidation |-> zoneAnswer]

NoPicker == PickerState(NoLocation, NoZoneAnswer)

\* the handler that ran last and the step it started from
Event(handler, from) == [handler |-> handler, from |-> from]

InitClient ==
    /\ home = HomeState(1, NoRocketConfig, NoLocation, NoAnalysisResult)
    /\ flows = << >>
    /\ picker = NoPicker
    /\ validations = << >>
    /\ lastEvent = Event("none", 1)

\* a sequence without its i-th element
Without(seq, i) == SubSeq(seq, 1, i - 1) \o SubSeq(seq, i + 1, Len(seq))

(* ---------------------------- state machine ---------------------------- *)
InitEngine ==
    /\ pc = "idle"
    /\ location = NoLocation
    /\ rocketConfig = NoRocketConfig
    /\ overpass = NoOutcome
    /\ zoneValidation = NoValidation
    /\ narrative = NoNarrative
    /\ currentMonth = Undefined
    /\ result = NoResult
    /\ narrativeCalls = 0
    /\ narrativeRequest = NoRequest
    /\ nearbyZones = << >>

Init == InitEngine /\ InitRoutes("MemStorage") /\ InitCalls /\ InitEstimates /\ InitClient

\* POST /api/validate-zone with a location that passes locationSchema:
\* validateZone starts and awaits the provider
ValidateStart ==
    /\ pc = "idle"
    /\ \E loc \in Locations : location' = loc
    /\ pc' = "validate_overpass"
    /\ UNCHANGED <<rocketConfig, overpass, zoneValidation, narrative, currentMonth, result>>
    /\ UNCHANGED <<narrativeCalls, narrativeRequest, nearbyZones, routeVars, calls, estimates, clientVars>>

\* the provider settles; validateZone returns or throws
ValidateOverpassReply ==
    /\ pc = "validate_overpass"
    /\ \E outcome \in ZoneOverpassOutcomes :
          LET osmData == queryOverpassAPI(outcome)
          IN  /\ overpass' = outcome
              /\ IF validateZoneThrows(osmData)
                 THEN /\ pc' = "validate_rejected"
                      /\ UNCHANGED zoneValidation
                 ELSE /\ pc' = "validated"
                      /\ zoneValidation' = validateZone(location, osmData)
    /\ UNCHANGED <<location, rocketConfig, narrative, currentMonth, result>>
    /\ UNCHANGED <<narrativeCalls, narrativeRequest, nearbyZones, routeVars, calls, estimates, clientVars>>

\* POST /api/analyze with a body that passes analyzeLocationRequestSchema:
\* analyzeLocation starts, validateZone awaits the provider
AnalyzeStart ==
    /\ pc = "idle"
    /\ \E loc \in Locations : location' = loc
    /\ \E cfg \in RocketConfigs : rocketConfig' = cfg
    /\ pc' = "analyze_overpass"
    /\ UNCHANGED <<overpass, zoneValidation, narrative, currentMonth, result>>
    /\ UNCHANGED <<narrativeCalls, narrativeRequest, nearbyZones, routeVars, calls, estimates, clientVars>>

\* the provider settles; validateZone throws and analyzeLocation rejects, or
\* validateZone returns and analyzeLocation goes on (the estimators do not
\* suspend on anything external) to send the narrative request
AnalyzeOverpassReply ==
    /\ pc = "analyze_overpass"
    /\ \E outcome \in AnalyzeOverpassOutcomes :
          LET osmData == queryOverpassAPI(outcome)
          IN  /\ overpass' = outcome
              /\ IF validateZoneThrows(osmData)
                 THEN /\ pc' = "analyze_rejected"
                      /\ UNCHANGED <<zoneValidation, narrativeCalls, narrativeRequest>>
                 ELSE /\ pc' = "analyze_narrative"
                      /\ zoneValidation' = validateZone(location, osmData)
                      /\ narrativeCalls' = narrativeCalls + 1
                      /\ narrativeRequest' =
                             LocationData(location, rocketConfig, validateZone(location, osmData))
    /\ UNCHANGED <<location, rocketConfig, narrative, currentMonth, result>>
    /\ UNCHANGED <<nearbyZones, routeVars, calls, estimates, clientVars>>

\* the narrative provider settles; analyzeLocation computes the scores with
\* the month read from the clock and resolves
AnalyzeNarrativeReply ==
    /\ pc = "analyze_narrative"
    /\ \E outcome \in NarrativeOutcomes, month \in Months :
          /\ narrative' = outcome
          /\ currentMonth' = month
          /\ result' = AnalysisResult(location, rocketConfig, zoneValidation,
                 analyzeLocationWithAI(narrativeRequest, outcome), month)
    /\ pc' = "analyzed"
    /\ UNCHANGED <<location, rocketConfig, overpass, zoneValidation>>
    /\ UNCHANGED <<narrativeCalls, narrativeRequest, nearbyZones, routeVars, calls, estimates, clientVars>>

\* POST /api/validate-zone of the static variant: validateZone is synchronous
StaticValidate ==
    /\ pc = "idle"
    /\ \E loc \in Locations, zones \in NearbyZoneLists :
          /\ location' = loc
          /\ nearbyZones' = zones
          /\ zoneValidation' = staticValidateZone(loc, zones)
    /\ pc' = "static_validated"
    /\ UNCHANGED <<rocketConfig, overpass, narrative, currentMonth, result>>
    /\ UNCHANGED <<narrativeCalls, narrativeRequest, routeVars, calls, estimates, clientVars>>

\* analyzeLocation of the static variant: nothing it awaits is external
StaticAnalyze ==
    /\ pc = "idle"
    /\ \E loc \in Locations \cup {RemoteLocation}, cfg \in RocketConfigs, zones \in AnalyzeZoneLists, month \in Months :
          /\ location' = loc
          /\ rocketConfig' = cfg
          /\ nearbyZones' = zones
          /\ currentMonth' = month
          /\ zoneValidation' = staticValidateZone(loc, zones)
          /\ result' = staticAnalyzeLocation(loc, cfg, staticValidateZone(loc, zones), month)
    /\ pc' = "static_analyzed"
    /\ UNCHANGED <<overpass, narrative, narrativeCalls, narrativeRequest, routeVars, calls, estimates, clientVars>>

Next ==
    \/ ValidateStart
    \/ ValidateOverpassReply
    \/ AnalyzeStart
    \/ AnalyzeOverpassReply
    \/ AnalyzeNarrativeReply
    \/ StaticValidate
    \/ StaticAnalyze

Spec == Init /\ [][Next]_vars

(* --------------------- specification: storage and routes --------------- *)
InitStorage ==
    /\ InitEngine /\ (\E kind \in StorageKinds : InitRoutes(kind)) /\ InitCalls
    /\ InitEstimates /\ InitClient

\* POST /api/analyze arrives: the body fails the schema and the handler
\* answers 400, or analyzeLocation is called
PostAnalyzeBody(r) ==
    /\ requests[r].pc = "idle"
    /\ \E valid \in BOOLEAN :
          requests' = [requests EXCEPT ![r] =
              IF valid THEN Post("analyzing", NoAnalysis, "none", Response(0, NoAnalysis, << >>))
              ELSE Post("responded", NoAnalysis, "none",
                        Response(400, NoAnalysis, <<"Failed to analyze location">>))]
    /\ UNCHANGED <<storageKind, analyses, savedAnalyses, dbClock, nextId, saveLog>>
    /\ UNCHANGED <<engineVars, calls, estimates, clientVars>>

\* analyzeLocation settles: it rejects and the handler answers 400, or it
\* resolves with a result carrying a fresh id and the handler calls
\* storage.saveAnalysis (MemStorage sets the Map entry before it suspends)
PostAnalyzeResult(r) ==
    /\ requests[r].pc = "analyzing"
    /\ \/ /\ requests' = [requests EXCEPT ![r] =
                 Post("responded", NoAnalysis, "none",
                      Response(400, NoAnalysis, <<"Failed to analyze location">>))]
          /\ UNCHANGED <<analyses, nextId, saveLog>>
       \/ \E score \in RouteScores :
             LET analysis == Analysis(nextId, score)
             IN  /\ requests' = [requests EXCEPT ![r] =
                        Post("saving", analysis, "none", Response(0, NoAnalysis, << >>))]
                 /\ nextId' = nextId + 1
                 /\ IF storageKind = "MemStorage"
                    THEN /\ analyses' = MemStorage_saveAnalysis(analyses, analysis)
                         /\ saveLog' = Append(saveLog, analysis.id)
                    ELSE UNCHANGED <<analyses, saveLog>>
    /\ UNCHANGED <<storageKind, savedAnalyses, dbClock>>
    /\ UNCHANGED <<engineVars, calls, estimates, clientVars>>

\* saveAnalysis settles (the insert of DatabaseStorage commits at the
\* database's clock, or fails) and the handler answers
SaveSettles(r) ==
    /\ requests[r].pc = "saving"
    /\ LET analysis == requests[r].result
       IN  \/ /\ storageKind = "MemStorage"
              /\ requests' = [requests EXCEPT ![r] =
                     Post("responded", analysis, "ok", Response(200, analysis, << >>))]
              /\ UNCHANGED <<savedAnalyses, dbClock, saveLog>>
           \/ /\ storageKind = "DatabaseStorage"
              /\ savedAnalyses' = DatabaseStorage_saveAnalysis(savedAnalyses, analysis, dbClock + 1)
              /\ dbClock' = dbClock + 1
              /\ saveLog' = Append(saveLog, analysis.id)
              /\ requests' = [requests EXCEPT ![r] =
                     Post("responded", analysis, "ok", Response(200, analysis, << >>))]
           \/ /\ storageKind = "DatabaseStorage"
              /\ requests' = [requests EXCEPT ![r] =
                     Post("responded", analysis, "failed",
                          Response(400, NoAnalysis, <<"Failed to analyze location">>))]
              /\ UNCHANGED <<savedAnalyses, dbClock, saveLog>>
    /\ UNCHANGED <<storageKind, analyses, nextId>>
    /\ UNCHANGED <<engineVars, calls, estimates, clientVars>>

NextStorage ==
    \E r \in Requests :
        \/ PostAnalyzeBody(r)
        \/ PostAnalyzeResult(r)
        \/ SaveSettles(r)

SpecStorage == InitStorage /\ [][NextStorage]_vars

(* ----------------------- specification: estimators -------------------- *)
\* analyzeLocation reaches its estimator calls for a location
EstimateStart ==
    /\ pc = "idle"
    /\ \E loc \in EstimatorLocations : location' = loc
    /\ pc' = "assess_development"
    /\ UNCHANGED <<rocketConfig, overpass, zoneValidation, narrative, currentMonth, result>>
    /\ UNCHANGED <<narrativeCalls, narrativeRequest, nearbyZones, routeVars, calls, estimates, clientVars>>

\* `await assessDevelopmentLevel(location)`
AssessDevelopment ==
    /\ pc = "assess_development"
    /\ estimates' = [estimates EXCEPT !.developmentLevel = assessDevelopmentLevel(location)]
    /\ pc' = "assess_stability"
    /\ UNCHANGED <<location, rocketConfig, overpass, zoneValidation, narrative, currentMonth, result>>
    /\ UNCHANGED <<narrativeCalls, narrativeRequest, nearbyZones, routeVars, calls, clientVars>>

\* `await assessPoliticalStability(location)`
AssessStability ==
    /\ pc = "assess_stability"
    /\ estimates' = [estimates EXCEPT !.politicalStability = assessPoliticalStability(location)]
    /\ pc' = "assessed"
    /\ UNCHANGED <<location, rocketConfig, overpass, zoneValidation, narrative, currentMonth, result>>
    /\ UNCHANGED <<narrativeCalls, narrativeRequest, nearbyZones, routeVars, calls, clientVars>>

NextEstimators ==
    \/ EstimateStart
    \/ AssessDevelopment
    \/ AssessStability

SpecEstimators == Init /\ [][NextEstimators]_vars

(* ------------------ specification: Home and LocationPicker ------------- *)
\* Home renders LocationPicker only at step 2: a picker that stays mounted
\* keeps its state and its callbacks, one that is unmounted is rendered anew
\* with null state, and setState calls of the old one have no effect
RenderPicker(nextStep) ==
    IF home.currentStep = 2 /\ nextStep = 2
    THEN UNCHANGED <<picker, validations>>
    ELSE picker' = NoPicker /\ validations' = << >>

\* RocketTypeSelector (rendered at step 1) calls onSelect(config)
handleRocketSelect ==
    /\ home.currentStep = 1
    /\ \E config \in WizardConfigs :
           home' = [home EXCEPT !.rocketConfig = config, !.currentStep = 2]
    /\ RenderPicker(2)
    /\ lastEvent' = Event("handleRocketSelect", home.currentStep)
    /\ UNCHANGED <<engineVars, routeVars, calls, estimates, flows>>

\* a map click or `Use my location`: setSelectedLocation, and the effect on
\* selectedLocation calls validateLocationMutation.mutate
PickLocation ==
    /\ home.currentStep = 2
    /\ Len(validations) < MaxValidations
    /\ \E picked \in PickedLocations :
           /\ picker' = [picker EXCEPT !.selectedLocation = picked]
           /\ validations' = Append(validations, picked)
    /\ lastEvent' = Event("PickLocation", home.currentStep)
    /\ UNCHANGED <<engineVars, routeVars, calls, estimates, home, flows>>

\* one POST /api/validate-zone settles: onSuccess stores the answer, a
\* failed request changes nothing
ValidateSettles ==
    /\ \E i \in 1..Len(validations), outcome \in ConcurrentOverpassOutcomes :
           LET osmData == queryOverpassAPI(outcome)
           IN  /\ validations' = Without(validations, i)
               /\ picker' = IF validateZoneThrows(osmData) THEN picker
                            ELSE [picker EXCEPT !.zoneValidation =
                                     ZoneAnswer(validations[i], validateZone(validations[i], osmData))]
    /\ lastEvent' = Event("ValidateSettles", home.currentStep)
    /\ UNCHANGED <<engineVars, routeVars, calls, estimates, home, flows>>

\* `Analyze This Location`: onLocationSelect(selectedLocation) up to the
\* await of POST /api/reverse-geocode
handleLocationSelect ==
    /\ home.currentStep = 2
    /\ picker.selectedLocation # NoLocation
    /\ Len(flows) < MaxFlows
    /\ home' = [home EXCEPT !.selectedLocation = picker.selectedLocation]
    /\ flows' = Append(flows, Flow("geocode", "try", picker.selectedLocation,
                                   home.rocketConfig, picker.selectedLocation))
    /\ lastEvent' = Event("handleLocationSelect", home.currentStep)
    /\ UNCHANGED <<engineVars, routeVars, calls, estimates, picker, validations>>

\* POST /api/reverse-geocode settles: the try block goes on with the enriched
\* location, the catch block with the argument; each sends the analysis only
\* if the rocketConfig of its closure is set
GeocodeSettles ==
    /\ \E i \in 1..Len(flows), ok \in BOOLEAN :
           /\ flows[i].at = "geocode"
           /\ IF flows[i].rocketConfig = NoRocketConfig
              THEN /\ flows' = Without(flows, i)
                   /\ UNCHANGED <<home, picker, validations>>
              ELSE /\ flows' = [flows EXCEPT ![i] =
                          Flow("analyze", IF ok THEN "try" ELSE "catch",
                               flows[i].location, flows[i].rocketConfig,
                               IF ok THEN EnrichedLocation(flows[i].location)
                                     ELSE flows[i].location)]
                   /\ home' = [home EXCEPT !.currentStep = 3]
                   /\ RenderPicker(3)
    /\ lastEvent' = Event("GeocodeSettles", home.currentStep)
    /\ UNCHANGED <<engineVars, routeVars, calls, estimates>>

\* POST /api/analyze answers: analyzeMutation.onSuccess
AnalyzeSucceeds ==
    /\ \E i \in 1..Len(flows) :
           /\ flows[i].at = "analyze"
           /\ home' = [home EXCEPT
                  !.analysisResult = AnalysisResultFor(flows[i].requestLocation,
                                                       flows[i].rocketConfig),
                  !.currentStep = 4]
           /\ flows' = Without(flows, i)
    /\ RenderPicker(4)
    /\ lastEvent' = Event("onSuccess", home.currentStep)
    /\ UNCHANGED <<engineVars, routeVars, calls, estimates>>

\* POST /api/analyze fails: analyzeMutation.onError sets step 2, then
\* mutateAsync rejects. Awaited in the try block, the rejection enters the
\* catch block of handleLocationSelect, which sets step 3 and sends the
\* request again with the argument; awaited in the catch block, it ends the
\* call
AnalyzeFails ==
    /\ \E i \in 1..Len(flows) :
           /\ flows[i].at = "analyze"
           /\ IF flows[i].block = "try"
              THEN /\ home' = [home EXCEPT !.currentStep = 3]
                   /\ flows' = [flows EXCEPT ![i] =
                          Flow("analyze", "catch", flows[i].location,
                               flows[i].rocketConfig, flows[i].location)]
                   /\ RenderPicker(3)
              ELSE /\ home' = [home EXCEPT !.currentStep = 2]
                   /\ flows' = Without(flows, i)
                   /\ RenderPicker(2)
    /\ lastEvent' = Event("onError", home.currentStep)
    /\ UNCHANGED <<engineVars, routeVars, calls, estimates>>

\* the Back button, rendered at steps 2 and 3
handleBack ==
    /\ home.currentStep > 1 /\ home.currentStep < 4
    /\ home' = [home EXCEPT !.currentStep = home.currentStep - 1]
    /\ RenderPicker(home.currentStep - 1)
    /\ lastEvent' = Event("handleBack", home.currentStep)
    /\ UNCHANGED <<engineVars, routeVars, calls, estimates, flows>>

\* onReset of AnalysisResults, rendered at step 4 with an analysisResult
handleReset ==
    /\ home.currentStep = 4
    /\ home.analysisResult # NoAnalysisResult
    /\ home' = HomeState(1, NoRocketConfig, NoLocation, NoAnalysisResult)
    /\ RenderPicker(1)
    /\ lastEvent' = Event("handleReset", home.currentStep)
    /\ UNCHANGED <<engineVars, routeVars, calls, estimates, flows>>

NextClient ==
    \/ handleRocketSelect
    \/ PickLocation
    \/ ValidateSettles
    \/ handleLocationSelect
    \/ GeocodeSettles
    \/ AnalyzeSucceeds
    \/ AnalyzeFails
    \/ handleBack
    \/ handleReset

SpecClient == Init /\ [][NextClient]_vars

(* ------------------------------- claims -------------------------------- *)
\* validateZone has returned a ZoneValidation (in either route)
ZoneReturned == pc \in {"validated", "analyze_narrative", "analyzed"}

OsmData == queryOverpassAPI(overpass)

WarningIndices(P(_)) == { i \in 1..Len(zoneValidation.warnings) : P(zoneValidation.warnings[i]) }

IsUnavailableWarning(w) ==
    w.type = "other" /\ Includes(w.message, "Unable to verify restricted zones")

\* C1 (as claimed): analyzeLocation never rejects, whatever the POI provider
\* and the narrative provider do
C1_NeverRejects == pc # "analyze_rejected"

\* C2: when the POI provider call fails (no data), the ZoneValidation holds
\* exactly one `other` warning referencing the verification failure, its
\* severity is caution and isValid is false, at every latitude
C2_ProviderFailure ==
    (ZoneReturned /\ OsmData = NullData) =>
        /\ Cardinality(WarningIndices(IsUnavailableWarning)) = 1
        /\ zoneValidation.severity = "caution"
        /\ zoneValidation.isValid = FALSE

C2_Witness ==
    /\ pc = "validated"
    /\ overpass.net = "reject"
    /\ Abs(location.latitude) > 600
    /\ Len(zoneValidation.warnings) = 2

\* a successful reply with zero facility records or with no facility list
EmptyReply ==
    /\ overpass.net = "resolve" /\ overpass.ok /\ overpass.json = "valid"
    /\ overpass.data.shape = "object"
    /\ \/ overpass.data.elements = "absent"
       \/ overpass.data.elements = "list" /\ overpass.data.items = <<>>

\* C3 (as claimed): an empty provider response takes the provider-unavailable
\* warning path and is never safe / valid
C3_EmptyReplyIsUnavailable ==
    (ZoneReturned /\ EmptyReply) =>
        /\ WarningIndices(IsUnavailableWarning) # {}
        /\ ~(zoneValidation.severity = "safe" /\ zoneValidation.isValid)

\* C3 (amended): only a failed call (no data) yields the provider-unavailable
\* warning; an empty reply yields none, and is safe and valid with no warnings
\* when |latitude| <= 60
C3_EmptyReplyIsSafe ==
    ZoneReturned =>
        /\ (WarningIndices(IsUnavailableWarning) # {}) <=> (OsmData = NullData)
        /\ (EmptyReply /\ Abs(location.latitude) <= 600) =>
              /\ zoneValidation.warnings = <<>>
              /\ zoneValidation.severity = "safe"
              /\ zoneValidation.isValid

C3_Witness ==
    /\ pc = "validated"
    /\ EmptyReply
    /\ overpass.data.elements = "list"
    /\ zoneValidation.severity = "safe"

IsAirportElement(e) == e.tags.aeroway = "aerodrome" \/ e.tags.aeroway = "airport"

\* the reply lists exactly one facility, an airport with coordinates
SingleAirport ==
    /\ OsmData.shape = "object" /\ OsmData.elements = "list"
    /\ Len(OsmData.items) = 1
    /\ ~OsmData.items[1].isNull
    /\ IsAirportElement(OsmData.items[1])
    /\ HasCoordinates(OsmData.items[1])

\* every listed facility has coordinates at 15,000 m or more
AllFacilitiesFar ==
    /\ OsmData.shape = "object" /\ OsmData.elements = "list"
    /\ \A i \in 1..Len(OsmData.items) :
          /\ ~OsmData.items[i].isNull
          /\ HasCoordinates(OsmData.items[i])
          /\ OsmData.items[i].dist >= 15000

\* C4: one airport at d < 8,000 m gives a CRITICAL airport warning, danger,
\* invalid; at 8,000 <= d < 15,000 m a caution-tier airport warning, caution,
\* invalid; all facilities at d >= 15,000 m and no other warning gives safe,
\* valid, no warnings
C4_AirportTiers ==
    ZoneReturned =>
        /\ (SingleAirport /\ OsmData.items[1].dist < 8000) =>
              /\ \E i \in 1..Len(zoneValidation.warnings) :
                    /\ zoneValidation.warnings[i].type = "airport"
                    /\ Includes(zoneValidation.warnings[i].message, "CRITICAL")
              /\ zoneValidation.severity = "danger"
              /\ zoneValidation.isValid = FALSE
        /\ (SingleAirport /\ OsmData.items[1].dist >= 8000 /\ OsmData.items[1].dist < 15000) =>
              /\ \E i \in 1..Len(zoneValidation.warnings) :
                    /\ zoneValidation.warnings[i].type = "airport"
                    /\ Head(zoneValidation.warnings[i].message) = "Near"
              /\ zoneValidation.severity = "caution"
              /\ zoneValidation.isValid = FALSE
        /\ (AllFacilitiesFar /\ Abs(location.latitude) <= 600) =>
              /\ zoneValidation.warnings = <<>>
              /\ zoneValidation.severity = "safe"
              /\ zoneValidation.isValid

C4_Witness ==
    /\ pc = "validated"
    /\ SingleAirport
    /\ OsmData.items[1].dist = 8000
    /\ zoneValidation.severity = "caution"
    /\ ~zoneValidation.isValid

\* a critical-tier violation as the specification defines it
IsCriticalTier(w) ==
    \/ w.distance # Undefined /\ w.type = "airport" /\ w.distance < 8000
    \/ w.distance # Undefined /\ w.type = "military" /\ w.distance < 5000
    \/ w.distance # Undefined /\ w.type = "school" /\ w.distance < 500
    \/ w.distance = Undefined /\ Includes(w.message, "CRITICAL")

\* C5 (as claimed): severity is danger iff some warning is a critical-tier
\* violation, else caution iff a warning exists, else safe
C5_SeverityFromWarnings ==
    ZoneReturned =>
        zoneValidation.severity =
            IF WarningIndices(IsCriticalTier) # {} THEN "danger"
            ELSE IF Len(zoneValidation.warnings) > 0 THEN "caution"
            ELSE "safe"

IsRestrictedType(w) == w.type \in {"airport", "military", "school"}

\* C6: isValid is true only if there is no critical violation, no
\* provider-unavailable warning and no airport, military or school warning
C6_ValidOnlyIf ==
    (ZoneReturned /\ zoneValidation.isValid) =>
        /\ WarningIndices(IsCriticalTier) = {}
        /\ WarningIndices(IsUnavailableWarning) = {}
        /\ WarningIndices(IsRestrictedType) = {}

C6_Witness ==
    /\ pc = "validated"
    /\ zoneValidation.isValid
    /\ Len(zoneValidation.warnings) > 0
    /\ zoneValidation.severity = "caution"

\* the identities of the facility records of the reply
ReplyIdentities == { ElementId(OsmData.items[i]) : i \in 1..Len(OsmData.items) }

WarningsOf(identity) ==
    { i \in 1..Len(zoneValidation.warnings) :
         /\ zoneValidation.warnings[i].src # 0
         /\ ElementId(OsmData.items[zoneValidation.warnings[i].src]) = identity }

\* C7 (as claimed): a facility identity (type + id) contributes at most one
\* warning, however often it is listed and whatever its tags
C7_OneWarningPerIdentity ==
    ZoneReturned =>
        \A identity \in ReplyIdentities : Cardinality(WarningsOf(identity)) <= 1

\* the position of a warning in the claimed category order
CategoryRank(w) ==
    IF IsUnavailableWarning(w) THEN 0
    ELSE IF w.type = "airport" THEN 1
    ELSE IF w.type = "military" THEN 2
    ELSE IF w.type = "school" THEN 3
    ELSE IF w.type = "other" /\ w.src # 0 THEN 4
    ELSE IF w.type = "other" THEN 5
    ELSE 6

\* C8 (as claimed): warnings come in the order airport, military, school,
\* hospital, high latitude, urban density, whatever the provider's order
C8_CategoryOrder ==
    ZoneReturned =>
        \A i, j \in 1..Len(zoneValidation.warnings) :
            i < j => CategoryRank(zoneValidation.warnings[i]) <= CategoryRank(zoneValidation.warnings[j])

\* the position of a warning in the order of the validator's phases
PhaseRank(w) ==
    IF IsUnavailableWarning(w) /\ w.src = 0 THEN 0
    ELSE IF w.type = "urban_dense" THEN 3
    ELSE IF w.src # 0 THEN 1
    ELSE 2

\* C8 (amended): the provider-unavailable warning, then the airport, school,
\* military and hospital warnings in the provider's listing order, then the
\* high-latitude warning, then the urban-density warnings in listing order
C8_PhaseOrder ==
    ZoneReturned =>
        \A i, j \in 1..Len(zoneValidation.warnings) :
            i < j =>
                LET a == zoneValidation.warnings[i]
                    b == zoneValidation.warnings[j]
                IN  /\ PhaseRank(a) <= PhaseRank(b)
                    /\ (PhaseRank(a) = PhaseRank(b) /\ PhaseRank(a) = 1) => a.src < b.src
                    /\ (PhaseRank(a) = PhaseRank(b) /\ PhaseRank(a) = 3) => a.src <= b.src

C8_Witness ==
    /\ pc = "validated"
    /\ Len(zoneValidation.warnings) = 2
    /\ zoneValidation.warnings[1].type = "school"
    /\ zoneValidation.warnings[2].type = "airport"

\* every FeasibilityScore of an AnalysisResult
AllScores(r) ==
    { r.resources.materials, r.resources.expertise, r.resources.facilities, r.resources.overall,
      r.legal.permits, r.legal.regulations, r.legal.restrictions, r.legal.overall,
      r.geographical.terrain, r.geographical.weather, r.geographical.accessibility,
      r.geographical.overall,
      r.geopolitical.stability, r.geopolitical.cooperation, r.geopolitical.risks,
      r.geopolitical.overall,
      r.timing.seasonality, r.timing.currentConditions, r.timing.overall,
      r.practicality.cost, r.practicality.timeline, r.practicality.successProbability,
      r.practicality.overall }

TierOf(score) ==
    IF score >= 7000 THEN "feasible" ELSE IF score >= 4000 THEN "caution" ELSE "not_recommended"

\* C9: every FeasibilityScore of the result has its score in [0,100] and its
\* status is the tier of its score (70 / 40 boundaries)
C9_ScoresInRangeAndTiered ==
    pc = "analyzed" =>
        \A f \in AllScores(result) :
            /\ f.score >= 0 /\ f.score <= 10000
            /\ f.status = TierOf(f.score)

C9_Witness ==
    /\ pc = "analyzed"
    /\ result.legal.restrictions.status = "not_recommended"
    /\ result.geographical.weather.score = 7000
    /\ result.geographical.weather.status = "feasible"
    /\ result.legal.permits.score = 3000

\* `overall` is an integer number of points nearest to sum / n
IsRoundedMean(overall, sum, n) ==
    /\ overall % 100 = 0
    /\ 2 * Abs(n * overall - sum) <= 100 * n

\* C10: each category overall is the rounded mean of its named sub-scores
\* (two for timing, three for the others) and overallScore is the rounded
\* mean of the six category overalls
C10_OverallsAreRoundedMeans ==
    pc = "analyzed" =>
        /\ IsRoundedMean(result.resources.overall.score,
               result.resources.materials.score + result.resources.expertise.score
               + result.resources.facilities.score, 3)
        /\ IsRoundedMean(result.legal.overall.score,
               result.legal.permits.score + result.legal.regulations.score
               + result.legal.restrictions.score, 3)
        /\ IsRoundedMean(result.geographical.overall.score,
               result.geographical.terrain.score + result.geographical.weather.score
               + result.geographical.accessibility.score, 3)
        /\ IsRoundedMean(result.geopolitical.overall.score,
               result.geopolitical.stability.score + result.geopolitical.cooperation.score
               + result.geopolitical.risks.score, 3)
        /\ IsRoundedMean(result.timing.overall.score,
               result.timing.seasonality.score + result.timing.currentConditions.score, 2)
        /\ IsRoundedMean(result.practicality.overall.score,
               result.practicality.cost.score + result.practicality.timeline.score
               + result.practicality.successProbability.score, 3)
        /\ IsRoundedMean(result.overallScore,
               result.resources.overall.score + result.legal.overall.score
               + result.geographical.overall.score + result.geopolitical.overall.score
               + result.timing.overall.score + result.practicality.overall.score, 6)

C10_Witness ==
    /\ pc = "analyzed"
    /\ result.timing.overall.score = 7800
    /\ (result.resources.materials.score + result.resources.expertise.score
        + result.resources.facilities.score) % 300 # 0
    /\ (result.resources.overall.score + result.legal.overall.score
        + result.geographical.overall.score + result.geopolitical.overall.score
        + result.timing.overall.score + result.practicality.overall.score) % 600 # 0

\* the narrative provider did not deliver a complete object: the request
\* rejected, the content was null, not JSON or the JSON value null, or a
\* field was missing
NarrativeFailed(outcome) ==
    \/ outcome.call = "reject"
    \/ outcome.content \in {"null", "invalid", "jsonnull"}
    \/ outcome.fields.resourcesInsight = <<>>
    \/ outcome.fields.legalInsight = <<>>
    \/ outcome.fields.geographicalInsight = <<>>
    \/ outcome.fields.geopoliticalInsight = <<>>
    \/ outcome.fields.recommendation = <<>>

\* C11: when the narrative provider fails, the analysis still resolves, and
\* its recommendation and the details of every FeasibilityScore are non-empty
C11_FallbackTextPopulated ==
    /\ (narrative.call # "none") => pc = "analyzed"
    /\ (pc = "analyzed" /\ NarrativeFailed(narrative)) =>
          /\ result.recommendation # <<>>
          /\ \A f \in AllScores(result) : f.details # <<>>

C11_Witness ==
    /\ pc = "analyzed"
    /\ narrative.call = "resolve" /\ narrative.content = "object"
    /\ narrative.fields.legalInsight = <<>>
    /\ result.legal.permits.details = <<"Analysis unavailable">>
    /\ result.recommendation = <<"Unable to generate recommendation">>

IsHighLatitudeWarning(w) ==
    w.type = "other"
        /\ Includes(w.message, "High latitude location may have challenging weather conditions")

\* C12: the ZoneValidation holds the high-latitude `other` warning exactly
\* when |latitude| > 60 degrees, whatever the POI provider did; above 60
\* degrees with a successful reply and no nearby hazards it is the only
\* warning and the severity is caution
C12_HighLatitude ==
    ZoneReturned =>
        /\ Cardinality(WarningIndices(IsHighLatitudeWarning))
               = (IF Abs(location.latitude) > 600 THEN 1 ELSE 0)
        /\ (Abs(location.latitude) > 600 /\ (EmptyReply \/ AllFacilitiesFar)) =>
              /\ Len(zoneValidation.warnings) = 1
              /\ zoneValidation.warnings[1].type = "other"
              /\ zoneValidation.severity = "caution"

C12_Witness ==
    /\ pc = "validated"
    /\ location.latitude = 650
    /\ OsmData = ListData(<< >>)
    /\ zoneValidation.warnings = << HighLatitudeWarning >>
    /\ zoneValidation.severity = "caution"

\* every numeric score of an AnalysisResult
ScoreVector(r) ==
    << r.resources.materials.score, r.resources.expertise.score, r.resources.facilities.score,
       r.resources.overall.score,
       r.legal.permits.score, r.legal.regulations.score, r.legal.restrictions.score,
       r.legal.overall.score,
       r.geographical.terrain.score, r.geographical.weather.score,
       r.geographical.accessibility.score, r.geographical.overall.score,
       r.geopolitical.stability.score, r.geopolitical.cooperation.score,
       r.geopolitical.risks.score, r.geopolitical.overall.score,
       r.timing.seasonality.score, r.timing.currentConditions.score, r.timing.overall.score,
       r.practicality.cost.score, r.practicality.timeline.score,
       r.practicality.successProbability.score, r.practicality.overall.score,
       r.overallScore >>

\* C13 (as claimed): the scores of an industrial analysis are those of the
\* same request without modelType and safetyLevel
C13_IndustrialIgnoresSubType ==
    (pc = "analyzed" /\ rocketConfig.category = "industrial") =>
        ScoreVector(result)
            = ScoreVector(AnalysisResult(location, RocketConfig("industrial", "", ""),
                                         zoneValidation, NoInsights, currentMonth))

\* the branch of the classification chain a facility record takes
IsSchoolElement(e) ==
    ~IsAirportElement(e) /\ e.tags.amenity \in {"school", "university", "college"}

IsMilitaryElement(e) ==
    ~IsAirportElement(e) /\ ~IsSchoolElement(e)
        /\ (e.tags.military # "" \/ e.tags.landuse = "military")

IsHospitalElement(e) ==
    ~IsAirportElement(e) /\ ~IsSchoolElement(e) /\ ~IsMilitaryElement(e)
        /\ e.tags.amenity = "hospital"

\* record i is the first one with coordinates that carries its identity
FirstOccurrence(i) ==
    /\ HasCoordinates(OsmData.items[i])
    /\ \A j \in 1..(i - 1) :
          ~(HasCoordinates(OsmData.items[j])
            /\ ElementId(OsmData.items[j]) = ElementId(OsmData.items[i]))

\* the facility (non-urban) warnings that record i gave rise to
FacilityWarningsOf(i) ==
    { k \in 1..Len(zoneValidation.warnings) :
          zoneValidation.warnings[k].src = i
              /\ zoneValidation.warnings[k].type # "urban_dense" }

\* exactly one warning from record i, of this type and tier
OneWarning(i, type, tier) ==
    /\ Cardinality(FacilityWarningsOf(i)) = 1
    /\ \A k \in FacilityWarningsOf(i) :
          /\ zoneValidation.warnings[k].type = type
          /\ Head(zoneValidation.warnings[k].message) = tier

\* C20: each distinct school, military or hospital record with coordinates
\* gives: school critical below 500 m, caution below 2,000 m; military
\* critical below 5,000 m, caution below 10,000 m; hospital one caution
\* `other` warning below 1,500 m; nothing at or beyond the outer radius
C20_FacilityTiers ==
    (ZoneReturned /\ HasElements(OsmData)) =>
        \A i \in 1..Len(OsmData.items) :
            FirstOccurrence(i) =>
                LET e == OsmData.items[i]
                    d == e.dist
                IN  /\ IsSchoolElement(e) =>
                          IF d < 500 THEN OneWarning(i, "school", "CRITICAL")
                          ELSE IF d < 2000 THEN OneWarning(i, "school", "Near")
                          ELSE FacilityWarningsOf(i) = {}
                    /\ IsMilitaryElement(e) =>
                          IF d < 5000 THEN OneWarning(i, "military", "CRITICAL")
                          ELSE IF d < 10000 THEN OneWarning(i, "military", "Near")
                          ELSE FacilityWarningsOf(i) = {}
                    /\ IsHospitalElement(e) =>
                          IF d < 1500 THEN OneWarning(i, "other", "Near")
                          ELSE FacilityWarningsOf(i) = {}

C20_Witness ==
    /\ pc = "validated"
    /\ Len(OsmData.items) = 2
    /\ IsMilitaryElement(OsmData.items[1]) /\ OsmData.items[1].dist = 5000
    /\ IsSchoolElement(OsmData.items[2]) /\ OsmData.items[2].dist = 1999
    /\ Len(zoneValidation.warnings) = 2
    /\ zoneValidation.warnings[1].type = "military"
    /\ Head(zoneValidation.warnings[1].message) = "Near"
    /\ zoneValidation.warnings[2].type = "school"
    /\ Head(zoneValidation.warnings[2].message) = "Near"

\* C19: the narrative provider is called once, only after validateZone has
\* returned, with the messages of the returned warnings in their order; the
\* scores exist only after it settled, and the legal and practicality scores
\* are those of the returned ZoneValidation
C19_StepOrder ==
    /\ narrativeCalls = (IF pc \in {"analyze_narrative", "analyzed"} THEN 1 ELSE 0)
    /\ pc \in {"analyze_narrative", "analyzed"} =>
          narrativeRequest.zoneWarnings = WarningMessages(zoneValidation.warnings)
    /\ result # NoResult => (pc \in {"analyzed", "static_analyzed"})
    /\ pc = "analyzed" =>
          /\ result.zoneValidation = zoneValidation
          /\ LET zv == result.zoneValidation
                 legal == legalAnalysis(rocketConfig, zv, assessPoliticalStability(location),
                                        NoInsights)
             IN  /\ result.legal.permits.score = legal.permits.score
                 /\ result.legal.restrictions.score = legal.restrictions.score
                 /\ result.legal.overall.score = legal.overall.score
                 /\ result.practicality =
                        practicalityAnalysis(rocketConfig, zv, assessDevelopmentLevel(location),
                                             assessPoliticalStability(location))

C19_Witness ==
    /\ pc = "analyzed"
    /\ narrativeCalls = 1
    /\ Len(zoneValidation.warnings) = 3
    /\ Len(narrativeRequest.zoneWarnings) = 3
    /\ narrativeRequest.zoneWarnings[3] = HighLatitudeWarning.message
    /\ result.legal.permits.score = 3500

\* the provider record of an entry of the static list: same kind, same
\* distance, its own identity
ProviderRecord(z, i) ==
    Node(i, z.dist,
         IF z.kind = "airport" THEN Tags("aerodrome", "", "", "", "", << >>, z.name)
         ELSE IF z.kind = "military" THEN Tags("", "", "base", "", "", << >>, z.name)
         ELSE Tags("", "university", "", "", "", << >>, z.name))

\* the live validator on a reply holding exactly the nearby entries
LiveVerdict ==
    validateZone(location,
                 ListData([i \in 1..Len(nearbyZones) |-> ProviderRecord(nearbyZones[i], i)]))

SeverityRank(severity) ==
    IF severity = "safe" THEN 0 ELSE IF severity = "caution" THEN 1 ELSE 2

NarrativeUnavailable ==
    narrative.call = "reject" \/ narrative.content \in {"invalid", "jsonnull"}

SavePosition(id) == CHOOSE k \in 1..Len(saveLog) : saveLog[k] = id

SavedIds == { saveLog[k] : k \in 1..Len(saveLog) }

\* the list holds each saved analysis once, a later-saved one before an
\* earlier-saved one
NewestFirst(list) ==
    /\ \A i \in 1..Len(list) : list[i].id \in SavedIds
    /\ \A i, j \in 1..Len(list) :
          i < j => SavePosition(list[i].id) > SavePosition(list[j].id)

\* C15 (as claimed): after any saves the listing of either storage holds all
\* saved analyses newest-first, and getRecentAnalyses(n), where present,
\* returns the n most recent of them
C15_ListingNewestFirst ==
    /\ Len(GetAnalyses(storageKind, analyses, savedAnalyses)) = Len(saveLog)
    /\ NewestFirst(GetAnalyses(storageKind, analyses, savedAnalyses))
    /\ storageKind = "DatabaseStorage" =>
          \A n \in 0..(MaxRequests + 1) :
              LET recent == DatabaseStorage_getRecentAnalyses(savedAnalyses, n)
              IN  /\ Len(recent) = Min(n, Len(saveLog))
                  /\ NewestFirst(recent)
                  /\ \A i \in 1..Len(recent) :
                        SavePosition(recent[i].id) > Len(saveLog) - n

\* C16: a result answered with 200 by POST /api/analyze is what GET
\* /api/analyses/:id returns for its id from then on; an id never saved
\* gets 404; when saving fails the POST answers an error without the result
C16_SavedBeforeAnswered ==
    /\ \A r \in Requests :
          requests[r].pc = "responded" =>
              /\ requests[r].response.status = 200 =>
                    /\ requests[r].save = "ok"
                    /\ requests[r].response.analysis = requests[r].result
                    /\ requests[r].result.id \in SavedIds
                    /\ GetAnalysisById(storageKind, analyses, savedAnalyses,
                                       requests[r].result.id, "ok")
                           = Response(200, requests[r].result, << >>)
              /\ requests[r].save = "failed" =>
                    /\ requests[r].response.status = 400
                    /\ requests[r].response.analysis = NoAnalysis
    /\ \A id \in 1..(MaxRequests + 1) :
          id \notin SavedIds =>
              GetAnalysisById(storageKind, analyses, savedAnalyses, id, "ok").status = 404

\* a save failed and was answered 400, a later analysis was saved and
\* answered 200
C16_Witness ==
    /\ storageKind = "DatabaseStorage"
    /\ \E r1, r2 \in Requests :
          /\ requests[r1].pc = "responded" /\ requests[r1].save = "failed"
          /\ requests[r1].result.id = 1
          /\ requests[r2].pc = "responded" /\ requests[r2].response.status = 200
          /\ requests[r2].result.id = 2
    /\ GetAnalysisById(storageKind, analyses, savedAnalyses, 1, "ok").status = 404
    /\ GetAnalysisById(storageKind, analyses, savedAnalyses, 2, "ok").status = 200

\* the population figure a place record states: the number its population
\* tag starts with, 0 when the tag is absent or starts with no digit
StatedPopulation(tags) ==
    LET n == parseInt(tags.population)
    IN  IF tags.population = << >> \/ n = NaN THEN 0 ELSE n

\* the urban_dense warnings that record i gave rise to
UrbanWarningsOf(i) ==
    { k \in 1..Len(zoneValidation.warnings) :
          zoneValidation.warnings[k].src = i
              /\ zoneValidation.warnings[k].type = "urban_dense" }

\* C21: each city, town or suburb record with coordinates, population p and
\* distance d gives one urban_dense warning iff (p > 100,000 and d < 10,000 m)
\* or (p > 50,000 and d < 5,000 m) or (suburb and d < 2,000 m), none otherwise
C21_UrbanDensity ==
    (ZoneReturned /\ HasElements(OsmData)) =>
        \A i \in 1..Len(OsmData.items) :
            LET e == OsmData.items[i]
                p == StatedPopulation(e.tags)
                d == e.dist
            IN  (IsUrbanArea(e) /\ HasCoordinates(e)) =>
                    Cardinality(UrbanWarningsOf(i)) =
                        IF \/ p > 100000 /\ d < 10000
                           \/ p > 50000 /\ d < 5000
                           \/ e.tags.place = "suburb" /\ d < 2000
                        THEN 1 ELSE 0

\* a city of 100,001 at 9,999 m warns, a town of 50,001 at 5,000 m does not
C21_Witness ==
    /\ pc = "validated"
    /\ Abs(location.latitude) <= 600
    /\ Len(OsmData.items) = 2
    /\ OsmData.items[1].tags.place = "city"
    /\ StatedPopulation(OsmData.items[1].tags) = 100001 /\ OsmData.items[1].dist = 9999
    /\ OsmData.items[2].tags.place = "town"
    /\ StatedPopulation(OsmData.items[2].tags) = 50001 /\ OsmData.items[2].dist = 5000
    /\ Len(zoneValidation.warnings) = 1
    /\ zoneValidation.warnings[1].type = "urban_dense"
    /\ zoneValidation.warnings[1].src = 1

\* the season is favourable: months 5..8 from the equator northwards, the
\* other months south of it
FavorableSeason ==
    \/ location.latitude >= 0 /\ currentMonth >= 5 /\ currentMonth <= 8
    \/ location.latitude < 0 /\ ~(currentMonth >= 5 /\ currentMonth <= 8)

\* C22: timing depends only on the month and the sign of the latitude:
\* seasonality is 80 in the favourable season and 60 otherwise,
\* currentConditions is 75, timing.overall is the rounded mean of these two
\* (78 or 68), optimalWindow is the June-September text for latitude >= 0
\* and the December-March text for latitude < 0
C22_Timing ==
    pc \in {"analyzed", "static_analyzed"} =>
        /\ result.timing.seasonality.score = (IF FavorableSeason THEN 8000 ELSE 6000)
        /\ result.timing.currentConditions.score = 7500
        /\ result.timing.overall.score = (IF FavorableSeason THEN 7800 ELSE 6800)
        /\ result.timing.optimalWindow =
               (IF location.latitude >= 0 THEN <<"June through September">>
                ELSE <<"December through March">>)

\* just south of the equator in October: favourable, December-March window
C22_Witness ==
    /\ pc = "analyzed"
    /\ location.latitude = 0 - 1
    /\ currentMonth = 9
    /\ result.timing.seasonality.score = 8000
    /\ result.timing.overall.score = 7800
    /\ result.timing.optimalWindow = <<"December through March">>

\* the least distance of a list and the first list position that has it
LeastDistance(dists) ==
    CHOOSE m \in { dists[i] : i \in 1..Len(dists) } : \A i \in 1..Len(dists) : m <= dists[i]

FirstNearest(dists) ==
    CHOOSE i \in 1..Len(dists) :
        /\ dists[i] = LeastDistance(dists)
        /\ \A j \in 1..(i - 1) : dists[j] # LeastDistance(dists)

\* round(score * f + default * (1 - f)) with f = max(0, 1 - distance / D)
Weighted(score, distance, default, D) ==
    IF distance >= D THEN default
    ELSE (2 * (score * (D - distance) + default * distance) + D) \div (2 * D)

\* an estimate is the weighted score of the first nearest anchor: the
\* anchor's score at distance 0, the default from D on, between the two always
EstimateOf(estimate, scores, dists, default, D) ==
    LET score == scores[FirstNearest(dists)]
        distance == LeastDistance(dists)
    IN  /\ estimate = Weighted(score, distance, default, D)
        /\ distance = 0 => estimate = score
        /\ distance >= D => estimate = default
        /\ default <= estimate /\ estimate <= score /\ estimate <= 95

\* C23: both estimators take the nearest anchor, the first in list order
\* among equidistant ones, and return round(score * f + default * (1 - f))
\* with f = max(0, 1 - distance / D): default 60, D = 5,000 km for
\* development, default 65, D = 8,000 km for stability; results in
\* [60, 95] and [65, 95]
C23_Estimators ==
    /\ pc \in {"assess_stability", "assessed"} =>
           EstimateOf(estimates.developmentLevel, DevelopedScores, location.devDist,
                      60, 5000000)
    /\ pc = "assessed" =>
           EstimateOf(estimates.politicalStability, StableScores, location.stabDist,
                      65, 8000000)

\* Sydney (90) and Singapore (92) both 3,175,118 m away: Sydney's score counts
C23_Witness ==
    /\ pc = "assessed"
    /\ location.devDist[5] = location.devDist[6]
    /\ LeastDistance(location.devDist) = location.devDist[5]
    /\ FirstNearest(location.devDist) = 5
    /\ estimates.developmentLevel = 71
    /\ estimates.politicalStability = 80

\* C24: overallScore is never below 40, so neither the lowest recommendation
\* tier of the static variant nor the overall "Not Recommended" status of
\* the results page is selected for a result of analyzeLocation
C24_OverallNeverBelow40 ==
    pc \in {"analyzed", "static_analyzed"} =>
        /\ result.overallScore >= 4000
        /\ getOverallStatus(result.overallScore) # "not_recommended"
        /\ pc = "static_analyzed" =>
               Head(result.recommendation)
                   # "This location faces significant challenges for rocket launch activities."

\* the least overall score there is: an industrial rocket, a critical
\* violation among several warnings, beyond 60 degrees south, far from every
\* anchor, in the unfavourable season; the legal category alone is below 40
C24_Witness ==
    /\ pc = "analyzed"
    /\ rocketConfig.category = "industrial"
    /\ zoneValidation.severity = "danger"
    /\ result.legal.overall.score = 3800
    /\ result.legal.overall.status = "not_recommended"
    /\ result.overallScore = 6100

\* the same reply with every facility's `name` tag replaced
Renamed(items, name) ==
    [i \in 1..Len(items) |->
        IF items[i].isNull THEN items[i]
        ELSE [items[i] EXCEPT !.tags = [items[i].tags EXCEPT !.name = name]]]

\* C25 (as claimed): two successful replies that differ only in the `name`
\* tags of their facilities get the same severity and the same isValid
C25_VerdictIgnoresNames ==
    (ZoneReturned /\ OsmData.shape = "object" /\ OsmData.elements = "list") =>
        \A name \in {<< >>, PlainName, MarkerName} :
            LET other == validateZone(location, ListData(Renamed(OsmData.items, name)))
            IN  /\ other.severity = zoneValidation.severity
                /\ other.isValid = zoneValidation.isValid

\* the ZoneValidation of the returned warnings without the i-th one
ValidationWithout(i) ==
    LET fewer == Without(zoneValidation.warnings, i)
    IN  [isValid |-> isValidOf(fewer), warnings |-> fewer, severity |-> severityOf(fewer)]

\* the scores of the same request with that ZoneValidation
ResultWithout(i) ==
    AnalysisResult(location, rocketConfig, ValidationWithout(i), NoInsights, currentMonth)

\* no score that the claim names is higher in r than in s
NoneHigher(r, s) ==
    /\ r.legal.permits.score <= s.legal.permits.score
    /\ r.legal.restrictions.score <= s.legal.restrictions.score
    /\ r.practicality.successProbability.score <= s.practicality.successProbability.score
    /\ r.resources.overall.score <= s.resources.overall.score
    /\ r.legal.overall.score <= s.legal.overall.score
    /\ r.geographical.overall.score <= s.geographical.overall.score
    /\ r.geopolitical.overall.score <= s.geopolitical.overall.score
    /\ r.timing.overall.score <= s.timing.overall.score
    /\ r.practicality.overall.score <= s.practicality.overall.score
    /\ r.overallScore <= s.overallScore

\* C26: with coordinate, configuration and month fixed, one more warning
\* keeps or raises the severity and raises none of legal.permits,
\* legal.restrictions, practicality.successProbability, the category
\* overalls and overallScore
C26_MoreWarningsNeverBetter ==
    pc = "analyzed" =>
        \A i \in 1..Len(zoneValidation.warnings) :
            /\ SeverityRank(ValidationWithout(i).severity) <= SeverityRank(zoneValidation.severity)
            /\ NoneHigher(result, ResultWithout(i))

\* one hospital warning turns safe into caution: restrictions 85 to 55,
\* permits 80 to 65, successProbability 95 to 75, overallScore lower
C26_Witness ==
    /\ pc = "analyzed"
    /\ rocketConfig = RocketConfig("model", "", "advanced")
    /\ Len(zoneValidation.warnings) = 1
    /\ zoneValidation.severity = "caution"
    /\ ValidationWithout(1).severity = "safe"
    /\ result.legal.restrictions.score = 5500
    /\ ResultWithout(1).legal.restrictions.score = 8500
    /\ result.legal.permits.score = 6500
    /\ ResultWithout(1).legal.permits.score = 8000
    /\ result.practicality.successProbability.score = 7500
    /\ ResultWithout(1).practicality.successProbability.score = 9500
    /\ result.overallScore < ResultWithout(1).overallScore

\* the coordinates and the configuration of the analysis Home shows
ShownAnalysis ==
    [location |-> Coordinates(home.analysisResult.location),
     rocketConfig |-> home.analysisResult.rocketConfig]

\* the coordinates and the configuration currently selected in Home
CurrentSelection ==
    [location |-> Coordinates(home.selectedLocation), rocketConfig |-> home.rocketConfig]

\* C27: in the Home wizard currentStep stays within 1..4, at step 4 the
\* analysisResult is non-null, handleReset returns to step 1 with
\* rocketConfig, selectedLocation and analysisResult cleared, and a failed
\* analysis request returns the wizard to step 2
C27_WizardSteps ==
    /\ home.currentStep \in 1..4
    /\ home.currentStep = 4 => home.analysisResult # NoAnalysisResult
    /\ lastEvent.handler = "handleReset" =>
           home = HomeState(1, NoRocketConfig, NoLocation, NoAnalysisResult)
    /\ lastEvent.handler = "onError" => home.currentStep = 2

\* C28: the wizard enters step 4 only from the analysis step, and only for
\* the analysis of the rocket configuration and the location currently
\* selected, never for a request the user has navigated away from
C28_NoJumpToResults ==
    lastEvent.handler = "onSuccess" =>
        /\ lastEvent.from = 3
        /\ ShownAnalysis = CurrentSelection

\* C29: the zone validation LocationPicker shows is the answer for the
\* currently selected location, whatever order the answers arrive in
C29_ValidationOfSelected ==
    picker.zoneValidation # NoZoneAnswer =>
        picker.zoneValidation.location = picker.selectedLocation

\* C30: DatabaseStorage saves every analysis with a null session id, so
\* getAllAnalyses(s) with a non-empty session id s returns the empty list and
\* getAllAnalyses() without one returns every saved analysis
C30_NullSessionRows ==
    storageKind = "DatabaseStorage" =>
        LET all == DatabaseStorage_getAllAnalyses(savedAnalyses, NoSession)
        IN  /\ \A i \in 1..Len(savedAnalyses) : savedAnalyses[i].sessionId = NoSession
            /\ \A s \in SessionIds : DatabaseStorage_getAllAnalyses(savedAnalyses, s) = << >>
            /\ Len(all) = Len(saveLog)
            /\ \A k \in 1..Len(saveLog) : \E j \in 1..Len(all) : all[j].id = saveLog[k]

\* two analyses saved: none listed under a session id, both listed without
C30_Witness ==
    /\ storageKind = "DatabaseStorage"
    /\ Len(saveLog) = 2
    /\ DatabaseStorage_getAllAnalyses(savedAnalyses, <<"s1">>) = << >>
    /\ Len(DatabaseStorage_getAllAnalyses(savedAnalyses, NoSession)) = 2

(* -------------------- specification: concurrent analyses --------------- *)
InFlight(c) == calls[c].pc \in {"overpass", "narrative"}

\* analyzeLocation is called: validateZone creates its warnings array and
\* awaits the provider
CallStart(c) ==
    /\ calls[c].pc = "idle"
    /\ \E loc \in ConcurrentLocations, cfg \in ConcurrentConfigs :
          calls' = [calls EXCEPT ![c] =
              Call("overpass", loc, cfg, << >>, NoOutcome, NoValidation, NoRequest,
                   NoNarrative, Undefined, NoResult, FALSE)]
    /\ UNCHANGED <<engineVars, routeVars, estimates, clientVars>>

\* the provider answers call c: its validateZone throws, or returns and the
\* call sends its narrative request
CallOverpassReply(c) ==
    /\ calls[c].pc = "overpass"
    /\ \E outcome \in ConcurrentOverpassOutcomes :
          LET osmData == queryOverpassAPI(outcome)
              me == calls[c]
              overlapped == \E d \in Calls : d # c /\ InFlight(d)
              zv == validateZoneFrom(WarningsArray(calls, c), me.location, osmData)
          IN  calls' = [calls EXCEPT ![c] =
                  IF validateZoneThrows(osmData)
                  THEN Call("rejected", me.location, me.rocketConfig, me.warnings, outcome,
                            NoValidation, NoRequest, NoNarrative, Undefined, NoResult,
                            overlapped)
                  ELSE Call("narrative", me.location, me.rocketConfig, zv.warnings, outcome,
                            zv, LocationData(me.location, me.rocketConfig, zv),
                            NoNarrative, Undefined, NoResult, overlapped)]
    /\ UNCHANGED <<engineVars, routeVars, estimates, clientVars>>

\* the narrative provider answers call c, which computes its scores
CallNarrativeReply(c) ==
    /\ calls[c].pc = "narrative"
    /\ \E outcome \in ConcurrentNarrativeOutcomes :
          LET me == calls[c]
              overlapped == me.overlapped \/ \E d \in Calls : d # c /\ InFlight(d)
          IN  calls' = [calls EXCEPT ![c] =
                  Call("done", me.location, me.rocketConfig, me.warnings, me.overpass,
                       me.zoneValidation, me.narrativeRequest, outcome, ConcurrentMonth,
                       AnalysisResult(me.location, me.rocketConfig, me.zoneValidation,
                           analyzeLocationWithAI(me.narrativeRequest, outcome), ConcurrentMonth),
                       overlapped)]
    /\ UNCHANGED <<engineVars, routeVars, estimates, clientVars>>

NextConcurrent ==
    \E c \in Calls :
        \/ CallStart(c)
        \/ CallOverpassReply(c)
        \/ CallNarrativeReply(c)

SpecConcurrent == Init /\ [][NextConcurrent]_vars

\* what a call with these arguments and provider answers returns alone
AloneValidation(call) == validateZone(call.location, queryOverpassAPI(call.overpass))

AloneResult(call) ==
    AnalysisResult(call.location, call.rocketConfig, AloneValidation(call),
        analyzeLocationWithAI(
            LocationData(call.location, call.rocketConfig, AloneValidation(call)),
            call.narrative),
        call.currentMonth)

\* C18: however the calls interleave at their suspension points, each call
\* has the ZoneValidation and the result it would have alone
C18_NoInterference ==
    \A c \in Calls :
        /\ calls[c].pc \in {"narrative", "done"} =>
              calls[c].zoneValidation = AloneValidation(calls[c])
        /\ calls[c].pc = "done" => calls[c].result = AloneResult(calls[c])

\* two calls that overlapped, finished with different validations
C18_Witness ==
    /\ calls[1].pc = "done" /\ calls[2].pc = "done"
    /\ calls[1].overlapped /\ calls[2].overlapped
    /\ calls[1].zoneValidation.severity = "danger"
    /\ calls[2].zoneValidation.warnings = << UnavailableWarning, HighLatitudeWarning >>
    /\ calls[1].result.overallScore # calls[2].result.overallScore

====
